---- MODULE Spec2Model ----
(***************************************************************************)
(* The uTP socket of the Portal Network client (UtpSocket), its content    *)
(* reader and writer, and the transfer of one content item between a WRITE *)
(* socket and a READ socket.                                               *)
(*                                                                         *)
(* A content item is a byte string of `content` bytes.  A byte is          *)
(* identified with its offset in the item, so a payload is the half-open   *)
(* interval [lo, hi) of the offsets it carries (Uint8Array.subarray), and  *)
(* a byte string is a sequence of such intervals.                          *)
(***************************************************************************)
EXTENDS Integers, Sequences, FiniteSets, TLC

\* ------------------------------------------------------------------ bounds
\* The largest number of DATA packets of one transfer.
MaxChunks == 3
\* The largest number of DATA packets a READ socket handles (with duplicates).
MaxDataHandled == 5

\* ------------------------------------------------------- program constants
\* The payload size of a DATA packet (ContentWriter's BUFFER_SIZE).
BUFFER_SIZE == 512
\* JavaScript's undefined, where a number is expected.
undefined == -1
\* Values randUint16() may return.
RandUint16Samples == {4, 9}

Min(a, b) == IF a < b THEN a ELSE b
Max(a, b) == IF a > b THEN a ELSE b

\* --------------------------------------------------------- JavaScript arrays
\* An array is a sequence; element i of the array is a[i + 1]; a hole reads as
\* undefined.
ArrGet(a, i) == IF i >= 0 /\ i < Len(a) THEN a[i + 1] ELSE undefined

\* a[i] = v.  A negative i sets a property of the object, not an element:
\* length, slice, includes and findIndex do not see it.
ArrSet(a, i, v) ==
  IF i < 0 THEN a
  ELSE IF i < Len(a) THEN [a EXCEPT ![i + 1] = v]
  ELSE a \o [k \in 1..(i - Len(a)) |-> undefined] \o <<v>>

\* a.slice(start)
ArrSlice(a, start) ==
  LET k == IF start < 0 THEN Max(Len(a) + start, 0) ELSE Min(start, Len(a))
  IN  SubSeq(a, k + 1, Len(a))

\* a.includes(v)
ArrIncludes(a, v) == \E i \in 1..Len(a) : a[i] = v

\* a.findIndex((n, i, arr) => arr[i + 1] === undefined)
FindLastOfRun(a) ==
  IF \E i \in 0..(Len(a) - 1) : ArrGet(a, i + 1) = undefined
  THEN CHOOSE i \in 0..(Len(a) - 1) :
         /\ ArrGet(a, i + 1) = undefined
         /\ \A j \in 0..(i - 1) : ArrGet(a, j + 1) # undefined
  ELSE -1

\* ------------------------------------------------------------------ packets
NoPayload == [lo |-> 0, hi |-> 0]
PayloadLen(p) == p.hi - p.lo

Packet(pType, seqNr, ackNr, extension, bitmask, payload) ==
  [pType |-> pType, seqNr |-> seqNr, ackNr |-> ackNr,
   extension |-> extension, bitmask |-> bitmask, payload |-> payload]

\* The value a handler returns: undefined, or the compiled content.
RetUndefined == [some |-> FALSE, bytes |-> <<>>]
RetContent(bytes) == [some |-> TRUE, bytes |-> bytes]

\* ------------------------------------------------------------ ContentReader
NoReader ==
  [startingDataNr |-> 0, nextDataNr |-> 0, lastDataNr |-> undefined,
   packets |-> <<>>, bytes |-> <<>>]

NewContentReader(startingDataNr) ==
  [NoReader EXCEPT !.startingDataNr = startingDataNr,
                   !.nextDataNr = startingDataNr]

\* Reads the buffered packets that follow in order.
RECURSIVE ReadInOrder(_)
ReadInOrder(rd) ==
  IF rd.nextDataNr \in DOMAIN rd.packets
  THEN ReadInOrder([rd EXCEPT !.bytes = Append(@, rd.packets[rd.nextDataNr]),
                              !.nextDataNr = @ + 1])
  ELSE rd

AddPacket(rd, pkt) ==
  LET r1 == [rd EXCEPT !.packets = (pkt.seqNr :> pkt.payload) @@ @]
  IN  IF pkt.seqNr = rd.nextDataNr THEN ReadInOrder(r1) ELSE r1

\* ------------------------------------------------------------ ContentWriter
NoWriter ==
  [startingSeqNr |-> 0, seqNr |-> 0, writing |-> FALSE, sentChunks |-> <<>>,
   dataChunks |-> <<>>, dataNrs |-> <<>>]

NewContentWriter(startingSeqNr) ==
  [NoWriter EXCEPT !.startingSeqNr = startingSeqNr, !.seqNr = startingSeqNr]

\* Math.ceil(n / BUFFER_SIZE)
TotalChunks(n) == (n + BUFFER_SIZE - 1) \div BUFFER_SIZE

\* chunk(): the content cut into BUFFER_SIZE pieces, keyed from startingSeqNr.
Chunk(n, startingSeqNr) ==
  [k \in startingSeqNr..(startingSeqNr + TotalChunks(n) - 1) |->
     [lo |-> (k - startingSeqNr) * BUFFER_SIZE,
      hi |-> Min((k - startingSeqNr + 1) * BUFFER_SIZE, n)]]

\* Object.keys(dataChunks) as numbers: the integer keys in ascending order.
RECURSIVE KeysAscending(_)
KeysAscending(S) ==
  IF S = {} THEN <<>>
  ELSE LET m == CHOOSE x \in S : \A y \in S : x <= y
       IN  <<m>> \o KeysAscending(S \ {m})

\* ---------------------------------------------------------------- UtpSocket
NewSocket(type, seqNr, ackNr, n) ==
  [type |-> type, content |-> n, seqNr |-> seqNr, ackNr |-> ackNr,
   finNr |-> undefined, state |-> "null", ackNrs |-> <<>>,
   hasReader |-> FALSE, reader |-> NoReader,
   hasWriter |-> FALSE, writer |-> NoWriter,
   outBuffer |-> {}, listening |-> TRUE, timeoutCounter |-> FALSE]

\* What a method leaves: the socket, the packets it sent, what it returned.
Result(s, out, ret) == [sock |-> s, out |-> out, ret |-> ret]

\* createPacket with the seq_nr advanced whatever the packet's type.
CreatePacket_AdvancesAlways(s, pType, hasBitmask, bitmask, payload) ==
  [sock |-> [s EXCEPT !.seqNr = @ + 1],
   pkt |-> Packet(pType, s.seqNr, s.ackNr, IF hasBitmask THEN 1 ELSE 0,
                  bitmask, payload)]

CreatePacket(s, pType, hasBitmask, bitmask, payload) ==
  [sock |-> [s EXCEPT !.seqNr = IF pType = "ST_DATA" THEN @ + 1 ELSE @],
   pkt |-> Packet(pType, s.seqNr, s.ackNr, IF hasBitmask THEN 1 ELSE 0,
                  bitmask, payload)]

SendSynPacket(s) ==
  LET c == CreatePacket(s, "ST_SYN", FALSE, {}, NoPayload)
  IN  Result([c.sock EXCEPT !.state = "SynSent"], <<c.pkt>>, RetUndefined)

\* sendAckPacket(bitmask): a Uint8Array is truthy whatever its bits.
SendAckPacket(s, hasBitmask, bitmask) ==
  LET c == CreatePacket(s, "ST_STATE", hasBitmask, bitmask, NoPayload)
  IN  Result(c.sock, <<c.pkt>>, RetUndefined)

SendResetPacket(s) ==
  LET c == CreatePacket([s EXCEPT !.state = "Reset"], "ST_RESET", FALSE, {},
                        NoPayload)
  IN  Result(c.sock, <<c.pkt>>, RetUndefined)

\* sendFinPacket with finNr taken from the socket after the packet was made,
\* as if the FIN had advanced the seq_nr.
SendFinPacket_FinNrAfter(s) ==
  LET c == CreatePacket(s, "ST_FIN", FALSE, {}, NoPayload)
  IN  Result([c.sock EXCEPT !.finNr = c.sock.seqNr + 1], <<c.pkt>>,
             RetUndefined)

SendFinPacket(s) ==
  LET c == CreatePacket(s, "ST_FIN", FALSE, {}, NoPayload)
  IN  Result([c.sock EXCEPT !.finNr = c.pkt.seqNr], <<c.pkt>>, RetUndefined)

\* close that leaves the timeout and the listeners of the congestion
\* controller as they are.
Close_KeepsTimers(s, compile) ==
  Result(s, <<>>, IF compile THEN RetContent(s.reader.bytes) ELSE RetUndefined)

\* close(compile): the timeout of the congestion controller is cleared and
\* its listeners ('write' and a waiting canSend) are removed; compile()
\* returns the reader's bytes.
Close(s, compile) ==
  Result([s EXCEPT !.listening = FALSE, !.timeoutCounter = FALSE], <<>>,
         IF compile THEN RetContent(s.reader.bytes) ELSE RetUndefined)

\* sendDataPacket(bytes); canSend tells whether canSend() resolved or rejected.
SendDataPacket(s, bytes, canSend) ==
  LET s1 == [s EXCEPT !.state = "Connected"]
      rst == SendResetPacket(s1)
      s2 == IF canSend THEN s1 ELSE Close(rst.sock, FALSE).sock
      o2 == IF canSend THEN <<>> ELSE rst.out
      c == CreatePacket(s2, "ST_DATA", FALSE, {}, bytes)
  IN  Result([c.sock EXCEPT !.outBuffer = @ \cup {c.pkt.seqNr}],
             Append(o2, c.pkt), RetUndefined)

\* ContentWriter.write(): sends the next chunk, if one is left.
WriterWrite(s, canSend) ==
  LET w == s.writer
      bytes == IF w.seqNr \in DOMAIN w.dataChunks THEN w.dataChunks[w.seqNr]
               ELSE NoPayload
      sent == IF ArrIncludes(w.sentChunks, w.seqNr) THEN w.sentChunks
              ELSE Append(w.sentChunks, w.seqNr)
      r == SendDataPacket([s EXCEPT !.writer.sentChunks = sent], bytes, canSend)
  IN  IF ~w.writing THEN Result(s, <<>>, RetUndefined)
      ELSE IF Len(w.sentChunks) < Cardinality(DOMAIN w.dataChunks)
      THEN Result([r.sock EXCEPT !.writer.seqNr = sent[Len(sent)] + 1], r.out,
                  RetUndefined)
      ELSE Result([s EXCEPT !.writer.writing = FALSE], <<>>, RetUndefined)

\* ContentWriter.start()
WriterStart(s, canSend) ==
  LET chunks == Chunk(s.content, s.writer.startingSeqNr)
  IN  WriterWrite([s EXCEPT !.writer.writing = TRUE,
                            !.writer.dataChunks = chunks,
                            !.writer.dataNrs = KeysAscending(DOMAIN chunks)],
                  canSend)

SetWriter(s, seqNr, canSend) ==
  WriterStart([s EXCEPT !.hasWriter = TRUE,
                        !.writer = NewContentWriter(seqNr)], canSend)

SetReader(s, startingSeqNr) ==
  [s EXCEPT !.hasReader = TRUE, !.reader = NewContentReader(startingSeqNr)]

\* handleSynPacket with the reader started at the seq_nr of the SYN itself.
HandleSynPacket_ReaderAtSyn(s, seqNr, rand, canSend) ==
  LET s1 == [s EXCEPT !.state = "SynRecv", !.ackNr = seqNr]
      rAck == SendAckPacket(SetReader(s1, seqNr), FALSE, {})
      wAck == SendAckPacket([s1 EXCEPT !.seqNr = rand], FALSE, {})
      wSet == SetWriter(wAck.sock, wAck.sock.seqNr, canSend)
  IN  IF s.type = "READ" THEN rAck
      ELSE Result(wSet.sock, wAck.out \o wSet.out, RetUndefined)

\* handleSynPacket(seqNr); rand is what randUint16() returns.
HandleSynPacket(s, seqNr, rand, canSend) ==
  LET s1 == [s EXCEPT !.state = "SynRecv", !.ackNr = seqNr]
      rAck == SendAckPacket(SetReader(s1, seqNr + 1), FALSE, {})
      wAck == SendAckPacket([s1 EXCEPT !.seqNr = rand], FALSE, {})
      wSet == SetWriter(wAck.sock, wAck.sock.seqNr, canSend)
  IN  IF s.type = "READ" THEN rAck
      ELSE Result(wSet.sock, wAck.out \o wSet.out, RetUndefined)

\* handleFinAck that leaves the connection state as it is.
HandleFinAck_KeepsState(s) == Result(s, <<>>, RetUndefined)

HandleFinAck(s) ==
  Result([s EXCEPT !.state = "Closed", !.timeoutCounter = FALSE], <<>>,
         RetUndefined)

\* updateAckNrs(ackNr): the keys of the writer's dataChunks up to ackNr.
UpdateAckNrs(s, ackNr) ==
  [s EXCEPT !.ackNrs =
     KeysAscending({n \in DOMAIN s.writer.dataChunks : n <= ackNr})]

Compare(s) ==
  /\ ~ArrIncludes(s.ackNrs, undefined)
  /\ Len(s.ackNrs) = Len(s.writer.dataNrs)

\* handleStatePacket(ackNr, timestamp).  Without a writer, this.writer! is
\* undefined and updateAckNrs throws before anything changes.
HandleStatePacket(s, ackNr, canSend) ==
  LET s1 == UpdateAckNrs(s, ackNr)
  IN  IF ackNr = s.finNr THEN HandleFinAck(s)
      ELSE IF s.type = "READ" THEN Result(s, <<>>, RetUndefined)
      ELSE IF ~s.hasWriter THEN Result(s, <<>>, RetUndefined)
      ELSE IF Compare(s1) THEN SendFinPacket(s1)
      ELSE WriterWrite(s1, canSend)

\* The entries of the constant `bitmap`: the place in the window of the i-th
\* seq_nr after ackNr.
Bitmap(i) == i + 1

\* The width of the selective-ACK window.
SELECTIVE_ACK_BITS == 32

\* generateSelectiveAckBitMask(): the set of the bits that are set.
GenerateSelectiveAckBitMask(s) ==
  {Bitmap(i) - 1 : i \in {j \in 0..(SELECTIVE_ACK_BITS - 1) :
                            ArrIncludes(s.ackNrs, s.ackNr + 1 + j)}}

\* Whether handleDataPacket takes the packet as the expected one.
IsExpected(s, pkt) ==
  IF Len(s.ackNrs) > 1 THEN s.ackNr + 1 = pkt.seqNr ELSE TRUE

\* The ackNr handleDataPacket sets on an expected packet: the last seq_nr of
\* the run of received seq_nrs that starts at the packet's place in ackNrs.
LastInOrder(ackNrs, seqNr) ==
  LET future == ArrSlice(ackNrs, seqNr - ackNrs[1])
  IN  ArrGet(ArrSlice(future, FindLastOfRun(future)), 0)

HandleDataPacket(s, pkt) ==
  LET s1 == [s EXCEPT !.state = IF @ # "GotFin" THEN "Connected" ELSE @,
                      !.seqNr = @ + 1, !.timeoutCounter = FALSE]
      s2 == IF s1.hasReader THEN s1
            ELSE SetReader(s1, pkt.seqNr)
      acks == IF ArrGet(s.ackNrs, 0) = undefined
              THEN ArrSet(s.ackNrs, 0, pkt.seqNr)
              ELSE ArrSet(s.ackNrs, pkt.seqNr - s.ackNrs[1], pkt.seqNr)
      s3 == [s2 EXCEPT !.ackNrs = acks, !.reader = AddPacket(@, pkt)]
      s4 == [s3 EXCEPT !.ackNr = LastInOrder(acks, pkt.seqNr)]
      ack == SendAckPacket(s4, FALSE, {})
      fin == Close(ack.sock, TRUE)
  IN  IF IsExpected(s, pkt)
      THEN IF s4.state = "GotFin" /\ s4.ackNr = s4.finNr
           THEN Result(fin.sock, ack.out, fin.ret)
           ELSE ack
      ELSE SendAckPacket(s3, TRUE, GenerateSelectiveAckBitMask(s3))

\* handleFinPacket(packet, compile).  Without a reader, this.reader! is
\* undefined and the assignment of lastDataNr throws.
HandleFinPacket(s, pkt, compile) ==
  LET s1 == [s EXCEPT !.state = "GotFin"]
      s2 == [s1 EXCEPT !.finNr = pkt.seqNr]
      s3 == [s2 EXCEPT !.reader.lastDataNr = s2.finNr - 1]
      s4 == [s3 EXCEPT !.seqNr = @ + 1, !.ackNr = pkt.seqNr]
      ack == SendAckPacket(s4, FALSE, {})
      fin == Close(ack.sock, compile)
  IN  IF s.type = "WRITE" THEN Close(s1, FALSE)
      ELSE IF ~s.hasReader THEN Result(s2, <<>>, RetUndefined)
      ELSE IF s.ackNr + 1 = pkt.seqNr THEN Result(fin.sock, ack.out, fin.ret)
      ELSE Result(s3, <<>>, RetUndefined)

\* ------------------------------------------------- requests and the dispatch
\* The two uTP flows: in OFFER the WRITE socket (OFFER_WRITE) sends the SYN to
\* the READ socket (ACCEPT_READ); in FINDCONTENT the READ socket
\* (FINDCONTENT_READ) sends it to the WRITE socket (FOUNDCONTENT_WRITE).
Flows == {"OFFER", "FINDCONTENT"}

\* The seq_nr a request's socket starts with: an initiator's SYN bears 1.
InitiatorSeqNr == 1

\* A STATE that acknowledges the socket's SYN.
IsSynAck(s, pkt) ==
  /\ pkt.pType = "ST_STATE"
  /\ s.state = "SynSent"
  /\ pkt.ackNr = s.seqNr

\* FINDCONTENT_READ on the SYN-ACK: the first DATA bears the SYN-ACK's seq_nr.
ReaderOnSynAck(s, pkt) ==
  Result([s EXCEPT !.state = "Connected", !.ackNr = pkt.seqNr - 1], <<>>,
         RetUndefined)

\* OFFER_WRITE on the SYN-ACK: the writer starts at the seq_nr after the SYN's.
WriterOnSynAck(s, pkt, canSend) ==
  SetWriter([s EXCEPT !.state = "Connected", !.ackNr = pkt.seqNr,
                      !.seqNr = @ + 1], s.seqNr + 1, canSend)

\* handleUtpPacket: the packet goes to the socket's handler for its type.
Dispatch(s, pkt, compile, rand, canSend) ==
  CASE pkt.pType = "ST_SYN" -> HandleSynPacket(s, pkt.seqNr, rand, canSend)
    [] pkt.pType = "ST_STATE" ->
         IF ~IsSynAck(s, pkt) THEN HandleStatePacket(s, pkt.ackNr, canSend)
         ELSE IF s.type = "READ" THEN ReaderOnSynAck(s, pkt)
         ELSE WriterOnSynAck(s, pkt, canSend)
    [] pkt.pType = "ST_DATA" -> HandleDataPacket(s, pkt)
    [] pkt.pType = "ST_FIN" -> HandleFinPacket(s, pkt, compile)
    [] OTHER -> Result(s, <<>>, RetUndefined)

\* ContentRequest.init(): the initiator of the flow sends the SYN.
RequestInit(s) == SendSynPacket(s)

\* -------------------------------------------------------------------- state
VARIABLES
  flow,     \* the uTP flow of the transfer
  content,  \* the length of the content item, in bytes
  rs,       \* the READ socket
  ws,       \* the WRITE socket
  peer,     \* the seq_nr of the first DATA packet of the READ socket's peer
  qR,       \* packets in flight to the READ socket, in order
  qW,       \* packets in flight to the WRITE socket, in order
  rIn,      \* the packet the READ socket handled last
  rExp,     \* whether handleDataPacket took that packet as expected
  rOut,     \* the packets the READ socket sent while handling it
  rRet,     \* what that handler returned
  rRecv,    \* the seq_nrs of the DATA packets the READ socket has handled
  nData,    \* how many DATA packets the READ socket has handled
  wIn,      \* the packet the WRITE socket handled last
  wOut,     \* the packets the WRITE socket sent in its last step
  wData,    \* the DATA packets sent since the writer was started
  wLastData \* the seq_nr of the DATA packet the WRITE socket sent last

\* The state of the client around the sockets.
VARIABLES
  db,         \* the content DB of the history network: content key -> value
  blockIndex, \* the block-number index: block number -> block hash
  hIn,        \* the arguments and the outcome of the last call of store
  hEmitted,   \* the ContentAdded events that call emitted
  hGossip,    \* the keys that call handed to the gossip manager
  openContentRequest, \* the open-request table: socket key -> request
  mIn,        \* the last operation of the multiplexer and its arguments
  mSent,      \* whether that operation emitted 'Sent'
  mHandled,   \* how many packets and 'write' events the sockets have handled
  talk        \* the TALKREQ handlers of the uTP packets, in arrival order

\* The dispatcher of TALKREQ messages.
VARIABLES
  networks,   \* the ids of the overlay networks the node has a handler for
  supportsRendezvous, \* whether Rendezvous was among the supported networks
  tIn,        \* the TALKREQ onTalkReq handled last
  tCalls      \* the calls onTalkReq made for it, in order

\* The gossip of added content.
VARIABLES
  gRadius,    \* the radius recorded for each peer of the routing table
  gKnown,     \* the (peer, content key) pairs of the known-content record
  gOffers,    \* every OFFER sent so far, as (peer, content key), in order
  gIn,        \* the content key gossiped last
  gOut        \* the peers that call sent an OFFER to

\* Inclusion proofs.
VARIABLES
  pIn,        \* the block number a proof was last generated for, and the
              \* witness altered before it was verified (0: none), and whether
              \* the DB held the epoch's accumulator then
  pGen,       \* what generateInclusionProof left: the witnesses, or a throw
  pOut        \* what verifyInclusionProof did with them

\* A batch of content items on its way from a writer to a reader.
VARIABLES
  fItems,     \* the content items of the batch, each a length and a first byte
  fStage,     \* "idle", "new" (nothing chunked yet) or "chunked"
  fPackets,   \* the DATA packets not yet given to the reader, in seq_nr order
  fReader     \* the ContentReader

\* The node and what it keeps for its restart.
VARIABLES
  nNode,      \* the node: its ENR, its peer id, its bootnodes, and the
              \* routing table of each of its networks
  nDb,        \* the keys of the DB that hold the node details
  nStored,    \* the node as the last storeNodeDetails saw it, and whether
              \* its batch was written
  nIn         \* the last operation on the node and its options

\* Calls in flight.
VARIABLES
  cWaiting,   \* whether a sendDataPacket of the WRITE socket awaits canSend()
  tErr,       \* whether handling the last uTP TALKREQ threw, and whether
              \* handleUTP rejected
  sIn         \* the last call of sendFindContent: its arguments, the calls it
              \* made and what it returned

\* Listeners, timers and the header accumulator.
VARIABLES
  listeners,  \* the ContentAdded listeners on the client: the calls of
              \* getBlockByHash that registered them
  bCalls,     \* the calls of getBlockByHash that wait for a block body: the
              \* hash, whether the 2-second timer is pending, the outcome
  bIn,        \* the last event of those calls and the calls it resolved
  discv5Started, \* whether discv5 is started
  dbOpen,     \* whether the DB is open
  refreshListeners, \* the map of the refresh timers: network id -> timer
  intervals,  \* the interval timers made so far, and whether each is active
  kIn,        \* the last of start(), stop() and the firing of a timer
  headerAccumulator, \* the accumulator: the number of historical epochs
              \* and the block hashes of the current epoch
  aIn         \* the header addContentToHistory got last

routeVars == <<networks, supportsRendezvous, tIn, tCalls>>
gossipVars == <<gRadius, gKnown, gOffers, gIn, gOut>>
proofVars == <<pIn, pGen, pOut>>
framingVars == <<fItems, fStage, fPackets, fReader>>
nodeVars == <<nNode, nDb, nStored, nIn>>
waitVars == <<listeners, bCalls, bIn>>
timerVars == <<discv5Started, dbOpen, refreshListeners, intervals, kIn>>
accVars == <<headerAccumulator, aIn>>
endVars == <<waitVars, timerVars, accVars>>
lateVars == <<cWaiting, tErr, sIn, endVars>>
restVars ==
  <<routeVars, gossipVars, proofVars, framingVars, nodeVars, lateVars>>
historyVars == <<db, blockIndex, hIn, hEmitted, hGossip>>
muxVars == <<openContentRequest, mIn, mSent, mHandled>>
talkVars == <<talk>>
clientVars == <<historyVars, muxVars, talkVars, restVars>>

utpVars ==
  <<flow, content, rs, ws, peer, qR, qW, rIn, rExp, rOut, rRet, rRecv, nData,
    wIn, wOut, wData, wLastData>>

vars == <<utpVars, clientVars>>

EmptyMap == [k \in {} |-> 0]

NoStore ==
  [contentType |-> "none", hashKey |-> "none", value |-> "none",
   rejected |-> FALSE, again |-> FALSE]

\* The history network before any content has been stored.
InitHistory ==
  /\ db = EmptyMap /\ blockIndex = EmptyMap
  /\ hIn = NoStore /\ hEmitted = <<>> /\ hGossip = <<>>

NoOperation == [op |-> "none"]

\* The multiplexer before any request.
InitMux ==
  /\ openContentRequest = EmptyMap
  /\ mIn = NoOperation /\ mSent = FALSE /\ mHandled = 0

NoTalkReq == [protocol |-> "none", id |-> 0]

\* The dispatcher of a node created with the default supportedNetworks.
InitRouteIdle ==
  /\ networks = {"HistoryNetwork"} /\ supportsRendezvous = FALSE
  /\ tIn = NoTalkReq /\ tCalls = <<>>

\* A routing table with no peer and nothing gossiped.
InitGossipIdle ==
  /\ gRadius = EmptyMap /\ gKnown = {} /\ gOffers = <<>>
  /\ gIn = "none" /\ gOut = {}

NoProofCall == [blockNumber |-> undefined, altered |-> 0, stored |-> FALSE]
NoWitnesses == [witnesses |-> <<>>, threw |-> FALSE]

\* No proof has been generated.
InitProofIdle == pIn = NoProofCall /\ pGen = NoWitnesses /\ pOut = "none"

\* No batch is on its way.
InitFramingIdle ==
  fItems = <<>> /\ fStage = "idle" /\ fPackets = <<>> /\ fReader = NoReader

NoNode == [op |-> "none"]

\* No node has been created.
InitNodeIdle ==
  nNode = NoNode /\ nDb = EmptyMap /\ nStored = NoNode /\ nIn = NoNode

NoError == [threw |-> FALSE, rejected |-> FALSE]

\* No call of getBlockByHash waits for a body.
InitWaitIdle == listeners = {} /\ bCalls = EmptyMap /\ bIn = NoOperation

\* The client as its constructor leaves it: nothing started, no timer.
InitTimerIdle ==
  /\ discv5Started = FALSE /\ dbOpen = FALSE
  /\ refreshListeners = EmptyMap /\ intervals = EmptyMap
  /\ kIn = NoOperation

NoHeader ==
  [kind |-> "none", number |-> undefined, parentHash |-> "none",
   hash |-> "none"]

\* The accumulator is not in use.
InitAccIdle ==
  /\ headerAccumulator = [historicalEpochs |-> 0, currentEpoch |-> <<>>]
  /\ aIn = NoHeader

\* No call is in flight.
InitLateIdle ==
  /\ cWaiting = FALSE /\ tErr = NoError /\ sIn = NoOperation
  /\ InitWaitIdle /\ InitTimerIdle /\ InitAccIdle

InitRest ==
  /\ InitRouteIdle /\ InitGossipIdle /\ InitProofIdle /\ InitFramingIdle
  /\ InitNodeIdle /\ InitLateIdle

InitClient == InitHistory /\ InitMux /\ talk = <<>> /\ InitRest

readerVars == <<rs, rIn, rExp, rOut, rRet, rRecv, nData>>
writerVars == <<ws, wIn, wOut, wData, wLastData>>

NoPacket == Packet("none", 0, 0, 0, {}, NoPayload)

\* Content lengths: each chunk count up to MaxChunks, with a full and a
\* one-byte last chunk.
ContentLengths ==
  {(k - 1) * BUFFER_SIZE + 1 : k \in 1..MaxChunks}
    \cup {k * BUFFER_SIZE : k \in 1..MaxChunks}

ReaderSocket(f, seqNr) ==
  NewSocket("READ", IF f = "OFFER" THEN seqNr ELSE InitiatorSeqNr, 0, 0)

WriterSocket(f, n) ==
  NewSocket("WRITE", IF f = "OFFER" THEN InitiatorSeqNr ELSE 0, 0, n)

InitCommon ==
  /\ InitClient
  /\ flow \in Flows
  /\ content \in ContentLengths
  /\ \E r \in RandUint16Samples : rs = ReaderSocket(flow, r)
  /\ ws = WriterSocket(flow, content)
  /\ qR = <<>> /\ qW = <<>>
  /\ rIn = NoPacket /\ rExp = FALSE /\ rOut = <<>> /\ rRet = RetUndefined
  /\ rRecv = {} /\ nData = 0
  /\ wIn = NoPacket /\ wOut = <<>> /\ wData = <<>> /\ wLastData = undefined

\* --------------------------------------------------- the steps of a socket
SelectData(out) == SelectSeq(out, LAMBDA p : p.pType = "ST_DATA")

\* The READ socket handles pkt.
ReaderStep(pkt, compile) ==
  \E res \in {Dispatch(rs, pkt, compile, 0, TRUE)} :
    /\ rs' = res.sock
    /\ rIn' = pkt
    /\ rExp' = (pkt.pType = "ST_DATA" /\ IsExpected(rs, pkt))
    /\ rOut' = res.out
    /\ rRet' = res.ret
    /\ rRecv' = IF pkt.pType = "ST_DATA" THEN rRecv \cup {pkt.seqNr}
                ELSE rRecv
    /\ nData' = IF pkt.pType = "ST_DATA" THEN nData + 1 ELSE nData

\* The effect of a method of the WRITE socket; restart tells whether it
\* started a writer.
WriterEffect(res, pkt, restart) ==
  \E r \in {res} : \E data \in {SelectData(r.out)} :
    /\ ws' = r.sock
    /\ wIn' = pkt
    /\ wOut' = r.out
    /\ wData' = IF restart THEN data ELSE wData \o data
    /\ wLastData' = IF data = <<>> THEN wLastData
                    ELSE data[Len(data)].seqNr

WriterStep(pkt, rand, canSend) ==
  WriterEffect(Dispatch(ws, pkt, FALSE, rand, canSend), pkt,
               pkt.pType = "ST_SYN" \/ IsSynAck(ws, pkt))

\* ---------------------------------- a READ socket and the packets of its peer
\* The peer sends a SYN (OFFER) or a SYN-ACK (FINDCONTENT), the DATA packets
\* of the content from seq_nr `peer` on, and a FIN after the last of them.
\* The network delivers them in any order and any number of times.
PeerChunks == Chunk(content, peer)
PeerSyn == Packet("ST_SYN", peer - 1, 0, 0, {}, NoPayload)
PeerSynAck == Packet("ST_STATE", peer, InitiatorSeqNr, 0, {}, NoPayload)
PeerData == {Packet("ST_DATA", k, 0, 0, {}, PeerChunks[k]) : k \in DOMAIN PeerChunks}
PeerFin == Packet("ST_FIN", peer + TotalChunks(content), 0, 0, {}, NoPayload)

\* The request is in the open-request table: the socket has not been closed.
RequestOpen(s) == s.listening

InitRead ==
  /\ InitCommon
  /\ peer \in IF flow = "OFFER" THEN {InitiatorSeqNr + 1} ELSE RandUint16Samples

ReadInit ==
  /\ flow = "FINDCONTENT"
  /\ rs.state = "null"
  /\ rs' = RequestInit(rs).sock
  /\ rOut' = RequestInit(rs).out
  /\ rIn' = NoPacket /\ rExp' = FALSE /\ rRet' = RetUndefined
  /\ UNCHANGED <<clientVars, flow, content, peer, qR, qW, rRecv, nData, writerVars>>

ReadSyn ==
  /\ flow = "OFFER"
  /\ RequestOpen(rs)
  /\ ReaderStep(PeerSyn, FALSE)
  /\ UNCHANGED <<clientVars, flow, content, peer, qR, qW, writerVars>>

ReadSynAck ==
  /\ flow = "FINDCONTENT"
  /\ rs.state # "null"
  /\ RequestOpen(rs)
  /\ ReaderStep(PeerSynAck, FALSE)
  /\ UNCHANGED <<clientVars, flow, content, peer, qR, qW, writerVars>>

ReadData ==
  /\ rs.state # "null"
  /\ RequestOpen(rs)
  /\ nData < MaxDataHandled
  /\ \E p \in PeerData : ReaderStep(p, FALSE)
  /\ UNCHANGED <<clientVars, flow, content, peer, qR, qW, writerVars>>

ReadFin ==
  /\ rs.state # "null"
  /\ RequestOpen(rs)
  /\ \E compile \in BOOLEAN : ReaderStep(PeerFin, compile)
  /\ UNCHANGED <<clientVars, flow, content, peer, qR, qW, writerVars>>

NextRead == ReadInit \/ ReadSyn \/ ReadSynAck \/ ReadData \/ ReadFin

SpecRead == InitRead /\ [][NextRead]_vars

\* -------------------------- a WRITE socket and the packets and events it gets
\* The ack_nrs a STATE packet may carry.
AckNrs == 0..(MaxChunks + 1 + CHOOSE r \in RandUint16Samples :
                                 \A q \in RandUint16Samples : q <= r)

InitWrite == InitCommon /\ peer = 0

WriteInit ==
  /\ flow = "OFFER"
  /\ ws.state = "null"
  /\ WriterEffect(RequestInit(ws), NoPacket, FALSE)
  /\ UNCHANGED <<clientVars, flow, content, peer, qR, qW, readerVars>>

WriteSyn ==
  /\ flow = "FINDCONTENT"
  /\ \E rand \in RandUint16Samples, canSend \in BOOLEAN :
       WriterStep(Packet("ST_SYN", InitiatorSeqNr, 0, 0, {}, NoPayload), rand,
                  canSend)
  /\ UNCHANGED <<clientVars, flow, content, peer, qR, qW, readerVars>>

WriteState ==
  /\ ws.state # "null"
  /\ \E ack \in AckNrs, canSend \in BOOLEAN :
       WriterStep(Packet("ST_STATE", 0, ack, 0, {}, NoPayload), 0, canSend)
  /\ UNCHANGED <<clientVars, flow, content, peer, qR, qW, readerVars>>

\* The congestion controller emits 'write'.
WriteOnWrite ==
  /\ ws.listening
  /\ ws.hasWriter
  /\ \E canSend \in BOOLEAN :
       WriterEffect(WriterWrite(ws, canSend), NoPacket, FALSE)
  /\ UNCHANGED <<clientVars, flow, content, peer, qR, qW, readerVars>>

NextWrite == WriteInit \/ WriteSyn \/ WriteState \/ WriteOnWrite

SpecWrite == InitWrite /\ [][NextWrite]_vars

\* ------------------- a transfer with no loss, duplication or reordering
InitTransfer == InitCommon /\ peer = 0

TransferInit ==
  /\ rs.state = "null" /\ ws.state = "null"
  /\ qR = <<>> /\ qW = <<>>
  /\ IF flow = "OFFER"
     THEN /\ WriterEffect(RequestInit(ws), NoPacket, FALSE)
          /\ qR' = wOut'
          /\ UNCHANGED <<qW, readerVars>>
     ELSE /\ rs' = RequestInit(rs).sock
          /\ rOut' = RequestInit(rs).out
          /\ qW' = RequestInit(rs).out
          /\ UNCHANGED <<qR, rIn, rExp, rRet, rRecv, nData, writerVars>>
  /\ UNCHANGED <<clientVars, flow, content, peer>>

TransferToReader ==
  /\ qR # <<>>
  /\ ReaderStep(Head(qR), TRUE)
  /\ qR' = Tail(qR)
  /\ qW' = qW \o rOut'
  /\ UNCHANGED <<clientVars, flow, content, peer, writerVars>>

TransferToWriter ==
  /\ qW # <<>>
  /\ \E rand \in RandUint16Samples : WriterStep(Head(qW), rand, TRUE)
  /\ qW' = Tail(qW)
  /\ qR' = qR \o wOut'
  /\ UNCHANGED <<clientVars, flow, content, peer, readerVars>>

TransferOnWrite ==
  /\ ws.listening
  /\ ws.hasWriter
  /\ WriterEffect(WriterWrite(ws, TRUE), NoPacket, FALSE)
  /\ qR' = qR \o wOut'
  /\ UNCHANGED <<clientVars, flow, content, peer, qW, readerVars>>

NextTransfer ==
  TransferInit \/ TransferToReader \/ TransferToWriter \/ TransferOnWrite

SpecTransfer ==
  /\ InitTransfer
  /\ [][NextTransfer]_vars
  /\ WF_vars(TransferInit)
  /\ WF_vars(TransferToReader)
  /\ WF_vars(TransferToWriter)

\* ------------------------------- a READ socket and packets that arrive late
\* The peer sends a SYN with seq_nr 0 and the DATA packets 1, 2, ... of a
\* content item of SELECTIVE_ACK_BITS + 3 chunks.  The network delivers the
\* first two in order and then, in any order and once each, the packets up to
\* ScenarioLast and the two whose seq_nrs are 32 and 33 after the second.
ScenarioLast == 10

SackSeqNrs ==
  (1..ScenarioLast) \cup {2 + SELECTIVE_ACK_BITS, 3 + SELECTIVE_ACK_BITS}

InitSack ==
  /\ InitClient
  /\ flow = "OFFER"
  /\ content = (SELECTIVE_ACK_BITS + 3) * BUFFER_SIZE
  /\ peer = 1
  /\ \E r \in RandUint16Samples : rs = ReaderSocket(flow, r)
  /\ ws = WriterSocket(flow, content)
  /\ qR = <<>> /\ qW = <<>>
  /\ rIn = NoPacket /\ rExp = FALSE /\ rOut = <<>> /\ rRet = RetUndefined
  /\ rRecv = {} /\ nData = 0
  /\ wIn = NoPacket /\ wOut = <<>> /\ wData = <<>> /\ wLastData = undefined

SackSyn ==
  /\ rs.state = "null"
  /\ ReaderStep(PeerSyn, FALSE)
  /\ UNCHANGED <<clientVars, flow, content, peer, qR, qW, writerVars>>

SackData ==
  /\ rs.state # "null"
  /\ \E p \in PeerData :
       /\ p.seqNr \in SackSeqNrs \ rRecv
       /\ IF p.seqNr <= peer + 1 THEN p.seqNr = peer + Cardinality(rRecv)
          ELSE {peer, peer + 1} \subseteq rRecv
       /\ ReaderStep(p, FALSE)
  /\ UNCHANGED <<clientVars, flow, content, peer, qR, qW, writerVars>>

NextSack == SackSyn \/ SackData

SpecSack == InitSack /\ [][NextSack]_vars

\* =================================================================== claims
\* ----------------------------------------------------------- shared notions
\* The largest n such that every seq_nr from start through n is in S
\* (start - 1 when start itself is missing).
LargestInOrder(start, S) ==
  CHOOSE n \in (start - 1)..(start + Cardinality(S)) :
    /\ \A k \in start..n : k \in S
    /\ (n + 1) \notin S

\* Every DATA packet of the peer has been handled.
AllDataReceived == DOMAIN PeerChunks \subseteq rRecv

\* bytes is the content item of n bytes.
IsContent(bytes, n) ==
  /\ Len(bytes) = TotalChunks(n)
  /\ \A i \in 1..Len(bytes) :
       /\ bytes[i].lo = (i - 1) * BUFFER_SIZE
       /\ bytes[i].hi = Min(i * BUFFER_SIZE, n)

\* out holds a STATE packet that acknowledges nr.
Acks(out, nr) ==
  \E i \in 1..Len(out) : out[i].pType = "ST_STATE" /\ out[i].ackNr = nr

\* The one plain STATE packet, without selective ACK, that acknowledges nr.
PlainAck(s, nr) == <<Packet("ST_STATE", s.seqNr, nr, 0, {}, NoPayload)>>

RECURSIVE SumLen(_)
SumLen(ps) ==
  IF ps = <<>> THEN 0 ELSE PayloadLen(ps[1].payload) + SumLen(Tail(ps))

\* ---------------------------------------------------------------------- C1
\* C1: after a READ socket has handled a DATA packet, whatever the order of
\* arrival, its ackNr is the largest seq_nr n such that every seq_nr from the
\* first DATA seq_nr of the transfer through n has been received; ackNr does
\* not pass a seq_nr that has not arrived.  Stated of the OFFER flow, where
\* handleSynPacket sets the seq_nr the reader starts at.
C1_AckNrIsLargestInOrder ==
  (rIn.pType = "ST_DATA" /\ flow = "OFFER")
    => rs.ackNr = LargestInOrder(peer, rRecv)

\* ---------------------------------------------------------------------- C2
\* C2: a READ socket returns compiled content only when every DATA seq_nr
\* from the first of the transfer through finNr - 1 has been received.
C2_DeliveryIsAtomic ==
  rRet.some => \A k \in peer..(rs.finNr - 1) : k \in rRecv

\* ---------------------------------------------------------------------- C3
\* C3: a FIN that reaches a connected READ socket while DATA packets are
\* missing is recorded in finNr, the state becomes GotFin and nothing is
\* delivered; when the last missing DATA packet then arrives the socket
\* acknowledges the FIN, returns the complete content and closes.
C3_FinWithGap ==
  (rs.state = "Connected" /\ rIn'.pType = "ST_FIN" /\ ~AllDataReceived)
    => (rs'.finNr = rIn'.seqNr /\ rs'.state = "GotFin" /\ ~rRet'.some)

C3_LastMissingData ==
  (/\ rs.state = "GotFin"
   /\ rIn'.pType = "ST_DATA"
   /\ ~AllDataReceived
   /\ AllDataReceived')
    => (/\ Acks(rOut', rs.finNr)
        /\ rRet'.some
        /\ IsContent(rRet'.bytes, content)
        /\ ~RequestOpen(rs'))

C3_FinThenLastDataDelivers ==
  [][C3_FinWithGap /\ C3_LastMissingData]_vars

\* ---------------------------------------------------------------------- C4
\* C4: in a transfer with no loss, duplication or reordering, the READ socket
\* answers every DATA packet with a STATE that acknowledges it, on the FIN it
\* returns exactly the writer's content and acknowledges the FIN, the WRITE
\* socket becomes Closed only by handling the STATE whose ack_nr is its
\* finNr, and the transfer ends with the WRITE socket Closed, the content
\* delivered and no packet in flight.
C4_DataAcked == rIn.pType = "ST_DATA" => rOut = PlainAck(rs, rIn.seqNr)

C4_FinDelivers ==
  rIn.pType = "ST_FIN"
    => (/\ rRet.some
        /\ IsContent(rRet.bytes, content)
        /\ rOut = PlainAck(rs, rIn.seqNr))

C4_ClosedByFinAck ==
  (ws.state # "Closed" /\ ws'.state = "Closed")
    => (/\ wIn'.pType = "ST_STATE"
        /\ ws.finNr # undefined
        /\ wIn'.ackNr = ws.finNr)

C4_Done ==
  /\ ws.state = "Closed"
  /\ rRet.some
  /\ IsContent(rRet.bytes, content)
  /\ qR = <<>> /\ qW = <<>>

C4_LosslessTransferTerminates ==
  /\ [](C4_DataAcked /\ C4_FinDelivers)
  /\ [][C4_ClosedByFinAck]_vars
  /\ <>[]C4_Done

\* A transfer of a content item of MaxChunks chunks, the last one partial,
\* has ended.
C4_Witness ==
  /\ C4_Done
  /\ TotalChunks(content) = MaxChunks
  /\ content % BUFFER_SIZE # 0
  /\ Cardinality(rRecv) = MaxChunks

\* ---------------------------------------------------------------------- C5
\* C5: a READ socket in Connected that handles a FIN whose seq_nr is
\* ackNr + 1 sets ackNr to that seq_nr, sends a STATE acknowledging it,
\* returns the content, and is in state Closed afterwards.
C5_FinWithoutGapCloses ==
  [][(rs.state = "Connected" /\ rIn'.pType = "ST_FIN"
        /\ rIn'.seqNr = rs.ackNr + 1)
       => (/\ rs'.ackNr = rIn'.seqNr
           /\ Acks(rOut', rIn'.seqNr)
           /\ rRet'.some
           /\ rs'.state = "Closed")]_vars

\* ---------------------------------------------------------------------- C6
\* C6: the ackNr of a READ socket never decreases, whatever SYN, DATA and FIN
\* packets it handles, duplicates included.
C6_AckNrNeverDecreases == [][rs'.ackNr >= rs.ackNr]_vars

\* ---------------------------------------------------------------------- C7
\* C7: the STATE a READ socket sends in reply to a DATA packet carries the
\* selective-ACK bitmap exactly when a seq_nr greater than ackNr + 1 has been
\* received.  With 1..10 sent and 5 and 7 late: ack 4 with a bitmap of four
\* seq_nrs once 6, 8, 9 and 10 are in; after 5, ack 6 with a bitmap of three;
\* after 7, ack 10 and no bitmap.
C7_Beyond == \E k \in rRecv : k > rs.ackNr + 1

C7_Reply(seqNr, recv, ackNr, bits) ==
  (rIn.seqNr = seqNr /\ rRecv = recv)
    => (/\ rOut[1].ackNr = ackNr
        /\ rOut[1].extension = (IF bits > 0 THEN 1 ELSE 0)
        /\ Cardinality(rOut[1].bitmask) = bits)

C7_BitmapWhenBuffered ==
  rIn.pType = "ST_DATA"
    => (/\ rOut[1].extension = 1 <=> C7_Beyond
        /\ C7_Reply(10, {1, 2, 3, 4, 6, 8, 9, 10}, 4, 4)
        /\ C7_Reply(5, {1, 2, 3, 4, 5, 6, 8, 9, 10}, 6, 3)
        /\ C7_Reply(7, 1..10, 10, 0))

\* ---------------------------------------------------------------------- C8
\* C8: in the bitmap of a selective ACK, for every i in 0..31, bit i is set
\* if and only if seq_nr ackNr + 2 + i has been received.
C8_BitmapBits ==
  (rIn.pType = "ST_DATA" /\ rOut[1].extension = 1)
    => \A i \in 0..(SELECTIVE_ACK_BITS - 1) :
         i \in rOut[1].bitmask <=> (rs.ackNr + 2 + i) \in rRecv

\* ---------------------------------------------------------------------- C9
\* C9: the DATA packets a WRITE socket has sent since its writer started bear
\* the consecutive seq_nrs from the writer's starting seq_nr on, the seed set
\* at the handshake; they are at most ceil(N / 512), and once every chunk is
\* sent exactly ceil(N / 512) with payload lengths that sum to N.  The
\* socket's seq_nr moves by one for each DATA packet created and by nothing
\* for a SYN, STATE, FIN or RESET.
C9_Seed ==
  IF flow = "OFFER" THEN {InitiatorSeqNr + 1} ELSE RandUint16Samples

C9_Packets ==
  ws.hasWriter
    => (/\ ws.writer.startingSeqNr \in C9_Seed
        /\ \A i \in 1..Len(wData) :
             wData[i].seqNr = ws.writer.startingSeqNr + i - 1
        /\ Len(wData) <= TotalChunks(content)
        /\ ws.seqNr = ws.writer.startingSeqNr + Len(wData)
        /\ Len(ws.writer.sentChunks) = TotalChunks(content)
             => (/\ Len(wData) = TotalChunks(content)
                 /\ SumLen(wData) = content))

C9_SeqNrStep ==
  (wIn'.pType # "ST_SYN" /\ ~IsSynAck(ws, wIn'))
    => ws'.seqNr = ws.seqNr + Len(SelectData(wOut'))

C9_DataPacketsOfWriter == []C9_Packets /\ [][C9_SeqNrStep]_vars

\* Every chunk of a content item of several chunks, the last one partial, is
\* sent, and a RESET and a FIN have been created since the writer started.
C9_Witness ==
  /\ ws.hasWriter
  /\ Len(wData) = TotalChunks(content)
  /\ Len(wData) = MaxChunks
  /\ content % BUFFER_SIZE # 0
  /\ ws.finNr # undefined
  /\ ws.state = "Reset"

\* --------------------------------------------------------------------- C10
\* C10: a FIN a WRITE socket sends bears the seq_nr that follows the seq_nr
\* of the DATA packet the socket sent last, and finNr holds that seq_nr.
C10_FinFollowsLastData ==
  \A i \in 1..Len(wOut) :
    wOut[i].pType = "ST_FIN"
      => (wOut[i].seqNr = wLastData + 1 /\ ws.finNr = wOut[i].seqNr)

\* A FIN has just been sent after the DATA packets of several chunks.
C10_Witness ==
  /\ \E i \in 1..Len(wOut) : wOut[i].pType = "ST_FIN"
  /\ Len(wData) = MaxChunks

\* out holds a packet of type pType.
Sends(out, pType) == \E i \in 1..Len(out) : out[i].pType = pType

\* --------------------------------------------------------------------- C11
\* C11: a WRITE socket sends a FIN only when every DATA packet of the content
\* has been sent and the STATE it handles acknowledges the last of them,
\* whatever ack_nrs the incoming STATE packets carry.
C11_FinAfterAllDataAcked ==
  Sends(wOut, "ST_FIN")
    => (/\ Len(wData) = TotalChunks(content)
        /\ wIn.pType = "ST_STATE"
        /\ wIn.ackNr >= wLastData)

\* --------------------------------------------------------------------- C12
\* C12: when canSend rejects in sendDataPacket the WRITE socket sends a RESET,
\* its state is Reset and it is closed, and it sends no DATA packet and adds
\* none to the out-buffer, in that call or afterwards.
C12_RefusedCall ==
  Sends(wOut', "ST_RESET")
    => (/\ ws'.state = "Reset"
        /\ ~ws'.listening
        /\ ~Sends(wOut', "ST_DATA")
        /\ ws'.outBuffer = ws.outBuffer)

C12_AfterReset ==
  ws.state = "Reset"
    => (~Sends(wOut', "ST_DATA") /\ ws'.outBuffer = ws.outBuffer)

C12_NoDataOnceRefused == [][C12_RefusedCall /\ C12_AfterReset]_vars

\* ------------------------------------------- the history network's content DB
\* A map as the DB and the block index keep it.
MapPut(m, k, v) == [x \in DOMAIN m \cup {k} |-> IF x = k THEN v ELSE m[x]]
MapHas(m, k) == k \in DOMAIN m

\* The first block after the merge: validateHeader asks a proof of the
\* headers below it only.
MERGE_BLOCK == 15537393

Hashes == {"0xa", "0xb"}

\* The canonical chain the accumulators were built from: block 0xa is the
\* last one before the merge, block 0xb the first one after it.
NumberOf(hash) == IF hash = "0xa" THEN MERGE_BLOCK - 1 ELSE MERGE_BLOCK
CanonicalHash(number) == IF number < MERGE_BLOCK THEN "0xa" ELSE "0xb"

\* The witnesses of an inclusion proof: the branch of the accumulator that
\* leads to the leaf of block `number`, or that branch with its last byte
\* flipped.
Branch(number) == [branch |-> number]
FlippedBranch == [branch |-> 0]
NullProof == [branch |-> undefined]

\* createFromProof: the root computed from the leaf and the witnesses is the
\* target root only for the leaf of the canonical chain and its branch.
CreateFromProofThrows(witnesses, leaf, number) ==
  ~(witnesses = Branch(number) /\ leaf = CanonicalHash(number))

\* verifyInclusionProof: TRUE when it returns, FALSE when it throws.
VerifyInclusionProof(witnesses, blockHash, blockNumber) ==
  ~CreateFromProofThrows(witnesses, blockHash, blockNumber)

\* The contents a peer can offer.
HeaderValues ==
  UNION {{[kind |-> "header", number |-> NumberOf(h), hash |-> h, proof |-> p] :
            p \in {Branch(NumberOf(h)), FlippedBranch, NullProof}} :
         h \in Hashes}
BodyValues ==
  {[kind |-> "body", of |-> h, length |-> l] : h \in Hashes, l \in {0, 1}}
ReceiptValues == {[kind |-> "receipt"]}

getContentKey(contentType, hash) == <<contentType, hash>>

\* What a handler leaves behind: the DB, the block index, and whether it threw.
HistoryResult(d, idx, threw) == [db |-> d, blockIndex |-> idx, threw |-> threw]

indexBlockhash_Toggles(idx, number, blockHash) ==
  IF MapHas(idx, number) THEN [k \in DOMAIN idx \ {number} |-> idx[k]]
  ELSE MapPut(idx, number, blockHash)

indexBlockhash(idx, number, blockHash) == MapPut(idx, number, blockHash)

validateHeader_IndexesFirst(d, idx, value, contentHash) ==
  LET indexed == indexBlockhash(idx, value.number, value.hash)
  IN  IF value.number < MERGE_BLOCK
           /\ (\/ value.proof = NullProof
               \/ ~VerifyInclusionProof(value.proof, contentHash, value.number))
      THEN HistoryResult(d, indexed, TRUE)
      ELSE HistoryResult(
             MapPut(d, getContentKey("BlockHeader", contentHash), value),
             indexed, FALSE)

validateHeader(d, idx, value, contentHash) ==
  IF value.number < MERGE_BLOCK
       /\ (\/ value.proof = NullProof
           \/ ~VerifyInclusionProof(value.proof, contentHash, value.number))
  THEN HistoryResult(d, idx, TRUE)
  ELSE HistoryResult(
         MapPut(d, getContentKey("BlockHeader", contentHash), value),
         indexBlockhash(idx, value.number, value.hash), FALSE)

\* getBlockHeaderFromDB: the header stored for the block hash, if any.
HasBlockHeaderInDB(d, hash) == MapHas(d, getContentKey("BlockHeader", hash))
getBlockHeaderFromDB(d, hash) == d[getContentKey("BlockHeader", hash)]

\* reassembleBlock throws without a header and when the roots of the body
\* are not the ones of the header.
ReassembleBlockThrows(d, hashKey, value) ==
  \/ ~HasBlockHeaderInDB(d, hashKey)
  \/ value.of # getBlockHeaderFromDB(d, hashKey).hash

\* netBlock: whether ETH.getBlockByHash finds the block on the network.  The
\* body is put whether or not a block came of it.
addBlockBody(d, idx, value, hashKey, netBlock) ==
  IF value.length = 0
  THEN HistoryResult(d, idx, FALSE)
  ELSE LET isBlock == ~ReassembleBlockThrows(d, hashKey, value) \/ netBlock
           put == MapPut(d, getContentKey("BlockBody", hashKey), value)
       IN  IF isBlock THEN HistoryResult(put, idx, FALSE)
           ELSE HistoryResult(put, idx, FALSE)

\* store: the handler's result, a throw of validateHeader caught and logged.
store(d, idx, contentType, hashKey, value, netBlock) ==
  CASE contentType = "BlockBody" -> addBlockBody(d, idx, value, hashKey, netBlock)
    [] contentType = "BlockHeader" -> validateHeader(d, idx, value, hashKey)
    [] OTHER ->
         HistoryResult(MapPut(d, getContentKey(contentType, hashKey), value),
                       idx, FALSE)

ContentTypes == {"BlockHeader", "BlockBody", "Receipt"}
KeysOf(contentType) == IF contentType = "Receipt" THEN {"0xa"} ELSE Hashes
ValuesOf(contentType) ==
  CASE contentType = "BlockHeader" -> HeaderValues
    [] contentType = "BlockBody" -> BodyValues
    [] OTHER -> ReceiptValues

\* A call of store: ContentAdded is emitted after the branches, and the key
\* goes to the gossip manager when the routing table has a peer.
HistoryStore ==
  \E contentType \in ContentTypes, netBlock \in BOOLEAN, hasPeers \in BOOLEAN :
    \E hashKey \in KeysOf(contentType), value \in ValuesOf(contentType) :
      \E res \in {store(db, blockIndex, contentType, hashKey, value, netBlock)} :
        /\ db' = res.db
        /\ blockIndex' = res.blockIndex
        /\ hIn' = [contentType |-> contentType, hashKey |-> hashKey,
                   value |-> value, rejected |-> res.threw,
                   again |-> /\ hIn.contentType = contentType
                             /\ hIn.hashKey = hashKey /\ hIn.value = value]
        /\ hEmitted' = <<[event |-> "ContentAdded", hashKey |-> hashKey,
                          contentType |-> contentType, value |-> value]>>
        /\ hGossip' = IF hasPeers THEN <<getContentKey(contentType, hashKey)>>
                      ELSE <<>>
        /\ UNCHANGED <<utpVars, muxVars, talkVars, restVars>>

InitStore ==
  /\ InitClient
  /\ flow = "OFFER" /\ content = BUFFER_SIZE /\ peer = 0
  /\ rs = ReaderSocket(flow, 0)
  /\ ws = WriterSocket(flow, content)
  /\ qR = <<>> /\ qW = <<>>
  /\ rIn = NoPacket /\ rExp = FALSE /\ rOut = <<>> /\ rRet = RetUndefined
  /\ rRecv = {} /\ nData = 0
  /\ wIn = NoPacket /\ wOut = <<>> /\ wData = <<>> /\ wLastData = undefined

NextStore == HistoryStore

SpecStore == InitStore /\ [][NextStore]_vars


\* ------------------------------------------------- claims about the content DB
\* call is a store of a pre-merge block header whose proof is absent or
\* fails verifyInclusionProof.
RejectedHeader(call) ==
  /\ call.contentType = "BlockHeader"
  /\ call.value.number < MERGE_BLOCK
  /\ \/ call.value.proof = NullProof
     \/ ~VerifyInclusionProof(call.value.proof, call.hashKey, call.value.number)

\* C17: a call of store with a pre-merge block header whose proof is absent or
\* fails verifyInclusionProof leaves the content DB and the block-number index
\* as they were.
C17_RejectedHeaderWritesNothing ==
  [][RejectedHeader(hIn') => (db' = db /\ blockIndex' = blockIndex)]_vars

\* A header with a flipped witness was refused by a DB that holds content.
C17_Witness ==
  /\ RejectedHeader(hIn) /\ hIn.rejected
  /\ hIn.value.proof = FlippedBranch
  /\ db # EmptyMap /\ blockIndex # EmptyMap

\* C18: a call of store that rejects a block header for its invalid or missing
\* proof emits no ContentAdded and hands no key to the gossip manager.
C18_RejectedHeaderNotAnnounced ==
  [][(RejectedHeader(hIn') /\ hIn'.rejected)
       => (hEmitted' = <<>> /\ hGossip' = <<>>)]_vars

\* C19: a call of store writes a block body to the DB only when a block can be
\* reassembled from the body and the header stored for the block hash.
C19_BodyNeedsStoredHeader ==
  [][(hIn'.contentType = "BlockBody" /\ db' # db)
       => ~ReassembleBlockThrows(db, hIn'.hashKey, hIn'.value)]_vars

\* C20: a call of store writes a post-merge block header to the DB only when
\* its proof verifies for the block hash and number.
C20_PostMergeHeaderNeedsProof ==
  [][(/\ hIn'.contentType = "BlockHeader"
      /\ hIn'.value.number >= MERGE_BLOCK
      /\ db' # db)
       => (/\ hIn'.value.proof # NullProof
           /\ VerifyInclusionProof(hIn'.value.proof, hIn'.hashKey,
                                   hIn'.value.number))]_vars

\* C21: whenever ContentAdded is emitted for a key, the content announced is
\* retrievable from the DB under the content key of its type and hash.
C21_EmittedContentIsStored ==
  \A i \in 1..Len(hEmitted) :
    LET key == getContentKey(hEmitted[i].contentType, hEmitted[i].hashKey)
    IN  MapHas(db, key) /\ db[key] = hEmitted[i].value

\* C22: a call of store that repeats the content type, hash key and value of
\* the call before it leaves the content DB and the block index as that call
\* left them.
C22_StoreTwiceIsStoreOnce ==
  [][hIn'.again => (db' = db /\ blockIndex' = blockIndex)]_vars

\* A header accepted with its proof was stored a second time.
C22_Witness ==
  /\ hIn.again /\ hIn.contentType = "BlockHeader" /\ ~hIn.rejected
  /\ MapHas(db, getContentKey("BlockHeader", hIn.hashKey))
  /\ MapHas(blockIndex, hIn.value.number)


\* ------------------------------------------ the uTP multiplexer and its client
RequestCodes ==
  {"FOUNDCONTENT_WRITE", "FINDCONTENT_READ", "OFFER_WRITE", "ACCEPT_READ"}
NetworkIds == {"HistoryNetwork", "UTPNetwork"}
PeerIds == {"0xPeerAddress"}

\* The connection ids of the requests: the ends of the 16-bit range.
ConnectionIds == {0, 65535}

\* How many requests are open at a time, and how many packets and 'write'
\* events their sockets handle in a run.
MaxOpen == 1
MaxHandled == 3

IsWriteCode(requestCode) == requestCode \in {"FOUNDCONTENT_WRITE", "OFFER_WRITE"}
FlowOf(requestCode) ==
  IF requestCode \in {"FOUNDCONTENT_WRITE", "FINDCONTENT_READ"}
  THEN "FINDCONTENT" ELSE "OFFER"

MapRemove(m, k) == [x \in DOMAIN m \ {k} |-> m[x]]

createSocketKey(peerId, connectionId) == <<peerId, connectionId>>

\* The ids of the socket of each request code for the connection id of the
\* request.
startingIdNrs(id) ==
  [requestCode \in RequestCodes |->
     IF requestCode \in {"FOUNDCONTENT_WRITE", "ACCEPT_READ"}
     THEN [sndId |-> id + 1, rcvId |-> id]
     ELSE [sndId |-> id, rcvId |-> id + 1]]

\* The constructor of UtpSocket takes its ids from the options.
UtpSocketIds_Swapped(options) ==
  [remoteAddress |-> options.remoteAddress,
   rcvConnectionId |-> options.sndId, sndConnectionId |-> options.rcvId]

UtpSocketIds(options) ==
  [remoteAddress |-> options.remoteAddress,
   rcvConnectionId |-> options.rcvId, sndConnectionId |-> options.sndId]

createPortalNetworkUTPSocket(requestCode, peerId, sndId, rcvId, rand, n) ==
  (IF IsWriteCode(requestCode) THEN WriterSocket(FlowOf(requestCode), n)
   ELSE ReaderSocket(FlowOf(requestCode), rand))
    @@ UtpSocketIds([remoteAddress |-> peerId, sndId |-> sndId, rcvId |-> rcvId])

\* HistoryNetworkContentRequest: the constructor.
ContentRequest(requestCode, networkId, peerId, connectionId, socket) ==
  [requestCode |-> requestCode, networkId |-> networkId, peerId |-> peerId,
   connectionId |-> connectionId,
   socketKey |-> createSocketKey(peerId, connectionId), socket |-> socket]

\* The connection id sendSynPacket(pktId) gives the SYN: pktId ?? rcvConnectionId.
SynConnectionId(s, pktId) == IF pktId # undefined THEN pktId ELSE s.rcvConnectionId

\* init() with a SYN sent by the accepting side.
ContentRequestInit_AcceptorSyn(request) ==
  IF request.requestCode \in {"FOUNDCONTENT_WRITE", "OFFER_WRITE"}
  THEN RequestInit(request.socket)
  ELSE Result(request.socket, <<>>, RetUndefined)

\* HistoryNetworkContentRequest.init(): FINDCONTENT_READ and OFFER_WRITE send
\* the SYN, the two other codes wait for it.
ContentRequestInit(request) ==
  IF request.requestCode \in {"FINDCONTENT_READ", "OFFER_WRITE"}
  THEN RequestInit(request.socket)
  ELSE Result(request.socket, <<>>, RetUndefined)

\* What an operation of the multiplexer leaves: the table and the packets sent.
MuxResult(table, out) == [table |-> table, out |-> out]

handleNewRequest(table, requestCode, networkId, peerId, connectionId, rand, n) ==
  LET ids == startingIdNrs(connectionId)[requestCode]
      socket == createPortalNetworkUTPSocket(requestCode, peerId, ids.sndId,
                                             ids.rcvId, rand, n)
      request == ContentRequest(requestCode, networkId, peerId, connectionId,
                                socket)
      init == ContentRequestInit(request)
  IN  MuxResult(MapPut(table, request.socketKey,
                       [request EXCEPT !.socket = init.sock]),
                [i \in DOMAIN init.out |->
                   init.out[i] @@
                     [connectionId |-> SynConnectionId(init.sock, undefined)]])

\* The key of the open request a connection id of a packet belongs to: the
\* id is the connection id of the request or one of its neighbours.
NoKey == <<"none", undefined>>
getRequestKey(table, connId, peerId) ==
  LET keys == <<createSocketKey(peerId, connId),
                createSocketKey(peerId, connId + 1),
                createSocketKey(peerId, connId - 1)>>
      open == {i \in 1..3 : MapHas(table, keys[i])}
  IN  IF open = {} THEN NoKey
      ELSE keys[CHOOSE i \in open : \A j \in open : i <= j]

closeRequest(table, connId, peerId) ==
  MapRemove(table, getRequestKey(table, connId, peerId))

\* The socket has made a terminal transition.
Terminal(s) == s.state \in {"Closed", "Reset"} \/ ~s.listening

\* handleUtpPacket: the socket of the request handles the packet, and the
\* request is closed when that ended the transfer.
handleUtpPacket(table, key, pkt, rand, canSend) ==
  LET res == Dispatch(table[key].socket, pkt, TRUE, rand, canSend)
  IN  MuxResult(IF Terminal(res.sock) THEN MapRemove(table, key)
                ELSE [table EXCEPT ![key].socket = res.sock],
                res.out)

\* The 'write' listener of the socket: the multiplexer is not called.
OnWrite(table, key, canSend) ==
  LET res == WriterWrite(table[key].socket, canSend)
  IN  MuxResult([table EXCEPT ![key].socket = res.sock], res.out)

\* The connection id a packet bears in bytes 2 and 3 of its header.
ReadUInt16BE(connId) == connId % 65536

\* sendPortalNetworkMessage for a uTP packet: what comes of the call.
\* inRoutingTable: the routing table of networkId has the peer;
\* talkReqFails: discv5.sendTalkReq rejects.
sendPortalNetworkMessage(networkId, inRoutingTable, talkReqFails) ==
  IF ~inRoutingTable THEN "empty"
  ELSE IF ~talkReqFails THEN "response"
  ELSE IF networkId = "UTPNetwork" THEN "throws"
  ELSE "empty"

\* The 'Send' listener of the client.
OnSend(table, peerId, connId, networkId, inRoutingTable, talkReqFails) ==
  IF sendPortalNetworkMessage(networkId, inRoutingTable, talkReqFails) = "throws"
  THEN [table |-> closeRequest(table, ReadUInt16BE(connId), peerId),
        sent |-> FALSE]
  ELSE [table |-> table, sent |-> TRUE]

\* The packets of the peer of a request.
MuxContent == 2 * BUFFER_SIZE
MuxPackets(request) ==
  IF IsWriteCode(request.requestCode)
  THEN {Packet("ST_SYN", InitiatorSeqNr, 0, 0, {}, NoPayload)}
         \cup {Packet("ST_STATE", 0, ack, 0, {}, NoPayload) : ack \in 1..3}
  ELSE {PeerSyn, PeerSynAck, PeerFin} \cup PeerData

MuxHandleNewRequest ==
  \E requestCode \in RequestCodes, networkId \in NetworkIds, peerId \in PeerIds,
     connectionId \in ConnectionIds :
    /\ ~MapHas(openContentRequest, createSocketKey(peerId, connectionId))
    /\ Cardinality(DOMAIN openContentRequest) < MaxOpen
    /\ \E res \in {handleNewRequest(openContentRequest, requestCode, networkId,
                                    peerId, connectionId, 0, content)} :
         /\ openContentRequest' = res.table
         /\ mIn' = [op |-> "handleNewRequest", requestCode |-> requestCode,
                    key |-> createSocketKey(peerId, connectionId),
                    out |-> res.out]
    /\ mSent' = FALSE
    /\ UNCHANGED mHandled
    /\ UNCHANGED <<utpVars, historyVars, talkVars, restVars>>

MuxCloseRequest ==
  \E key \in DOMAIN openContentRequest :
    /\ openContentRequest' = closeRequest(openContentRequest, key[2], key[1])
    /\ mIn' = [op |-> "closeRequest", key |-> key]
    /\ mSent' = FALSE
    /\ UNCHANGED <<utpVars, historyVars, talkVars, restVars, mHandled>>

MuxHandleUtpPacket ==
  \E key \in DOMAIN openContentRequest, canSend \in BOOLEAN :
    \E pkt \in MuxPackets(openContentRequest[key]) :
      /\ mHandled < MaxHandled
      /\ \E res \in {handleUtpPacket(openContentRequest, key, pkt, 0, canSend)} :
           openContentRequest' = res.table
      /\ mIn' = [op |-> "handleUtpPacket", key |-> key, pType |-> pkt.pType]
      /\ mSent' = FALSE
      /\ mHandled' = mHandled + 1
      /\ UNCHANGED <<utpVars, historyVars, talkVars, restVars>>

\* The congestion controller of a socket emits 'write'.
MuxOnWrite ==
  \E key \in DOMAIN openContentRequest, canSend \in BOOLEAN :
    /\ openContentRequest[key].socket.listening
    /\ openContentRequest[key].socket.hasWriter
    /\ mHandled < MaxHandled
    /\ \E res \in {OnWrite(openContentRequest, key, canSend)} :
         openContentRequest' = res.table
    /\ mIn' = [op |-> "write", key |-> key]
    /\ mSent' = FALSE
    /\ mHandled' = mHandled + 1
    /\ UNCHANGED <<utpVars, historyVars, talkVars, restVars>>

\* The socket of a request sends a packet: 'Send' reaches the client.
MuxOnSend ==
  \E key \in DOMAIN openContentRequest, inRoutingTable \in BOOLEAN,
     talkReqFails \in BOOLEAN :
    \E connId \in {openContentRequest[key].socket.sndConnectionId,
                   openContentRequest[key].socket.rcvConnectionId} :
      /\ \E res \in {OnSend(openContentRequest, key[1], connId,
                            openContentRequest[key].networkId, inRoutingTable,
                            talkReqFails)} :
           /\ openContentRequest' = res.table
           /\ mSent' = res.sent
      /\ mIn' = [op |-> "Send", key |-> key,
                 failed |-> ~inRoutingTable \/ talkReqFails]
      /\ UNCHANGED <<utpVars, historyVars, talkVars, restVars, mHandled>>

InitMuxSpec ==
  /\ InitClient
  /\ flow = "OFFER" /\ content = MuxContent /\ peer = InitiatorSeqNr + 1
  /\ rs = ReaderSocket(flow, 0)
  /\ ws = WriterSocket(flow, content)
  /\ qR = <<>> /\ qW = <<>>
  /\ rIn = NoPacket /\ rExp = FALSE /\ rOut = <<>> /\ rRet = RetUndefined
  /\ rRecv = {} /\ nData = 0
  /\ wIn = NoPacket /\ wOut = <<>> /\ wData = <<>> /\ wLastData = undefined

NextMux ==
  \/ MuxHandleNewRequest
  \/ MuxCloseRequest
  \/ MuxHandleUtpPacket
  \/ MuxOnWrite
  \/ MuxOnSend

SpecMux == InitMuxSpec /\ [][NextMux]_vars


\* ------------------------------------------------ claims about the multiplexer
\* C13: after handleNewRequest the table holds the new request under the key
\* of (peerId, connectionId), after closeRequest that key is absent, and no
\* open request has a socket that has made a terminal transition.
C13_AddedUnderKey ==
  mIn.op = "handleNewRequest"
    => (/\ MapHas(openContentRequest, mIn.key)
        /\ openContentRequest[mIn.key].requestCode = mIn.requestCode
        /\ openContentRequest[mIn.key].socketKey = mIn.key)
C13_RemovedByClose ==
  mIn.op = "closeRequest" => ~MapHas(openContentRequest, mIn.key)
C13_NoTerminalRequestOpen ==
  \A key \in DOMAIN openContentRequest :
    ~Terminal(openContentRequest[key].socket)
C13_OpenRequestTable ==
  C13_AddedUnderKey /\ C13_RemovedByClose /\ C13_NoTerminalRequestOpen

\* C14: when the packet of a request cannot be sent (sendTalkReq fails or the
\* peer has no reachable address), the request is removed from the table and
\* 'Sent' is not emitted.
C14_SendFailureClosesRequest ==
  (mIn.op = "Send" /\ mIn.failed)
    => (~MapHas(openContentRequest, mIn.key) /\ ~mSent)

\* C15: the socket of a FOUNDCONTENT_WRITE or ACCEPT_READ request for
\* connection id c has rcvConnectionId c and sndConnectionId c + 1, the socket
\* of a FINDCONTENT_READ or OFFER_WRITE request has them the other way round,
\* and the socket is a WRITE socket exactly for the two WRITE codes.
C15_IdsOf(request) ==
  LET c == request.connectionId
      socket == request.socket
  IN  /\ request.requestCode \in {"FOUNDCONTENT_WRITE", "ACCEPT_READ"}
           => (socket.rcvConnectionId = c /\ socket.sndConnectionId = c + 1)
      /\ request.requestCode \in {"FINDCONTENT_READ", "OFFER_WRITE"}
           => (socket.sndConnectionId = c /\ socket.rcvConnectionId = c + 1)
      /\ socket.type = IF request.requestCode \in {"FOUNDCONTENT_WRITE",
                                                   "OFFER_WRITE"}
                       THEN "WRITE" ELSE "READ"
C15_ConnectionIds ==
  \A key \in DOMAIN openContentRequest : C15_IdsOf(openContentRequest[key])

\* A request for the largest connection id was just opened.
C15_Witness ==
  /\ mIn.op = "handleNewRequest"
  /\ mIn.key[2] = 65535
  /\ MapHas(openContentRequest, mIn.key)
  /\ openContentRequest[mIn.key].socket.sndConnectionId = 65536


\* ----------------------------------------- the TALKREQ handlers of uTP packets
\* The packets of the peer of an ACCEPT_READ socket, in the order sent.
TalkPackets ==
  <<PeerSyn>>
    \o [k \in 1..TotalChunks(content) |->
          Packet("ST_DATA", peer + k - 1, 0, 0, {}, PeerChunks[peer + k - 1])]
    \o <<PeerFin>>

\* onTalkReq for the next packet: handleUTP waits for sendPortalNetworkResponse.
TalkReqReceived ==
  /\ Len(talk) < Len(TalkPackets)
  /\ talk' = Append(talk, [pkt |-> TalkPackets[Len(talk) + 1],
                           pc |-> "response", closes |-> FALSE])
  /\ UNCHANGED <<utpVars, historyVars, muxVars, restVars>>

\* The response of handler i is sent: handleUtpPacket runs the handler of the
\* socket up to the packet it sends and waits for the send; a handler that
\* sends nothing ends here.
TalkHandleUtpPacket ==
  \E i \in 1..Len(talk) :
    /\ talk[i].pc = "response"
    /\ \E res \in {Dispatch(rs, talk[i].pkt, TRUE, 0, TRUE)} :
         /\ rs' = [res.sock EXCEPT !.listening = rs.listening]
         /\ rOut' = res.out
         /\ talk' = [talk EXCEPT
                       ![i].pc = IF res.out = <<>> THEN "done" ELSE "send",
                       ![i].closes = res.sock.listening # rs.listening]
    /\ rIn' = talk[i].pkt
    /\ rExp' = (talk[i].pkt.pType = "ST_DATA" /\ IsExpected(rs, talk[i].pkt))
    /\ rRet' = RetUndefined
    /\ rRecv' = IF talk[i].pkt.pType = "ST_DATA"
                THEN rRecv \cup {talk[i].pkt.seqNr} ELSE rRecv
    /\ nData' = IF talk[i].pkt.pType = "ST_DATA" THEN nData + 1 ELSE nData
    /\ UNCHANGED <<restVars, historyVars, muxVars, flow, content, peer, qR, qW,
                   writerVars>>

\* The packet of handler i is sent: the handler of the socket goes on to its
\* end, which closes the socket after the ack of a FIN.
TalkSent ==
  \E i \in 1..Len(talk) :
    /\ talk[i].pc = "send"
    /\ talk' = [talk EXCEPT ![i].pc = "done"]
    /\ \E res \in {IF talk[i].closes THEN Close(rs, TRUE)
                   ELSE Result(rs, <<>>, RetUndefined)} :
         /\ rs' = res.sock
         /\ rRet' = res.ret
    /\ UNCHANGED <<restVars, historyVars, muxVars, flow, content, peer, qR, qW, rIn,
                   rExp, rOut, rRecv, nData, writerVars>>

InitTalk == InitRead /\ flow = "OFFER"

NextTalk == TalkReqReceived \/ TalkHandleUtpPacket \/ TalkSent

SpecTalk == InitTalk /\ [][NextTalk]_vars

\* --------------------------------------- claims about the TALKREQ handlers
\* Handler i has applied its packet to the socket, in part or in whole.
TalkBegun(i) == talk[i].pc # "response"

\* C16: the packets of a socket are processed in arrival order: a handler
\* applies its packet to the socket only when the handlers of all packets that
\* arrived before have applied theirs to the end.
C16_ProcessedInArrivalOrder ==
  \A i, j \in 1..Len(talk) :
    (i < j /\ TalkBegun(j)) => talk[i].pc = "done"

\* ------------------------------------------------ claims about the handshake
\* The READ socket has just handled a SYN.
C27_ReaderOnSyn ==
  rIn.pType = "ST_SYN" =>
    /\ rs.state = "SynRecv" /\ rs.ackNr = rIn.seqNr
    /\ rs.hasReader
    /\ rs.reader.startingDataNr = rIn.seqNr + 1
    /\ rs.reader.nextDataNr = rIn.seqNr + 1
    /\ Len(rOut) = 1 /\ rOut[1].pType = "ST_STATE"
    /\ rOut[1].ackNr = rIn.seqNr

\* The WRITE socket has just handled a SYN; the SynRecv it entered gives way
\* to Connected as soon as the writer it started sends its first chunk.
C27_WriterOnSyn ==
  wIn.pType = "ST_SYN" =>
    /\ ws.state \in {"SynRecv", "Connected"} /\ ws.ackNr = wIn.seqNr
    /\ Len(wOut) >= 1 /\ wOut[1].pType = "ST_STATE"
    /\ wOut[1].seqNr \in RandUint16Samples
    /\ wOut[1].ackNr = wIn.seqNr
    /\ ws.hasWriter /\ ws.writer.startingSeqNr = wOut[1].seqNr
    /\ wData # <<>> /\ wData[1].seqNr = wOut[1].seqNr

\* C27: a socket that has handled a SYN with seq_nr s has ackNr = s; a READ
\* socket is in SynRecv, has a reader that starts at s + 1 and has replied with
\* one STATE packet (the SYN-ACK); a WRITE socket has replied with a SYN-ACK
\* bearing a random seq_nr r and has a writer that starts at r, whose first
\* DATA packet bears r too.
C27_HandleSynPacket == C27_ReaderOnSyn /\ C27_WriterOnSyn

\* A WRITE socket answered the SYN of a FINDCONTENT with SYN-ACK and DATA.
C27_WitnessWrite ==
  /\ wIn.pType = "ST_SYN" /\ Len(wOut) = 2 /\ wOut[2].pType = "ST_DATA"
  /\ wOut[2].seqNr = wOut[1].seqNr

\* A READ socket answered the SYN of an OFFER.
C27_WitnessRead ==
  /\ rIn.pType = "ST_SYN" /\ rs.hasReader /\ rs.state = "SynRecv"

\* C28: a request just opened has sent a SYN, and nothing else, exactly when
\* its code is FINDCONTENT_READ or OFFER_WRITE; the SYN bears the rcv
\* connection id of the request's socket and the socket is in SynSent.  A
\* request with the code FOUNDCONTENT_WRITE or ACCEPT_READ has sent nothing.
C28_SynAtInit ==
  mIn.op = "handleNewRequest" =>
    LET socket == openContentRequest[mIn.key].socket
    IN  IF mIn.requestCode \in {"FINDCONTENT_READ", "OFFER_WRITE"}
        THEN /\ Len(mIn.out) = 1 /\ mIn.out[1].pType = "ST_SYN"
             /\ mIn.out[1].connectionId = socket.rcvConnectionId
             /\ socket.state = "SynSent"
        ELSE /\ mIn.requestCode \in {"FOUNDCONTENT_WRITE", "ACCEPT_READ"}
             /\ mIn.out = <<>> /\ socket.state = "null"

\* An OFFER was opened for connection id 0: its SYN bears the rcv id 1.
C28_Witness ==
  /\ mIn.op = "handleNewRequest" /\ mIn.requestCode = "OFFER_WRITE"
  /\ mIn.out # <<>> /\ mIn.out[1].connectionId = 1

\* --------------------------------------------------- the TALKREQ dispatcher
\* The protocol ids a TALKREQ may bear: uTP, the overlay networks, Rendezvous
\* and one that names no network.
ProtocolIds ==
  {"UTPNetwork", "HistoryNetwork", "StateNetwork", "BeaconLightClientNetwork",
   "Rendezvous", "0xffff"}
SupportedNetworkOptions ==
  SUBSET {"HistoryNetwork", "StateNetwork", "BeaconLightClientNetwork",
          "Rendezvous"}
MessageIds == {1, 2}

\* The constructor: a handler for each overlay network among the supported
\* ones; Rendezvous only sets a flag.
NetworksOf(supportedNetworks) == supportedNetworks \ {"Rendezvous"}

EmptyTalkResp(id) == [call |-> "sendPortalNetworkResponse", id |-> id, payload |-> <<>>]

\* handleUTP: answers the TALKREQ, then hands the packet to the multiplexer.
handleUTP(id) ==
  <<EmptyTalkResp(id), [call |-> "uTP.handleUtpPacket", id |-> id]>>

\* onTalkReq with no branch for the uTP protocol id.
onTalkReq_NoUtpBranch(nets, protocol, id) ==
  IF protocol \notin nets THEN <<EmptyTalkResp(id)>>
  ELSE <<[call |-> "network.handle", network |-> protocol, id |-> id]>>

\* onTalkReq: the calls it makes for a TALKREQ, in order.
onTalkReq(nets, protocol, id) ==
  IF protocol = "UTPNetwork" THEN handleUTP(id)
  ELSE IF protocol \notin nets THEN <<EmptyTalkResp(id)>>
  ELSE <<[call |-> "network.handle", network |-> protocol, id |-> id]>>

TalkReq ==
  \E protocol \in ProtocolIds, id \in MessageIds :
    /\ tIn' = [protocol |-> protocol, id |-> id]
    /\ tCalls' = onTalkReq(networks, protocol, id)
    /\ UNCHANGED <<utpVars, historyVars, muxVars, talkVars,
                   lateVars, networks, supportsRendezvous, gossipVars, proofVars, framingVars,
                   nodeVars>>

\* No transfer is under way: the sockets of an OFFER not yet begun.
InitSocketsIdle ==
  /\ flow = "OFFER" /\ content = BUFFER_SIZE /\ peer = 0
  /\ rs = ReaderSocket(flow, 0)
  /\ ws = WriterSocket(flow, content)
  /\ qR = <<>> /\ qW = <<>>
  /\ rIn = NoPacket /\ rExp = FALSE /\ rOut = <<>> /\ rRet = RetUndefined
  /\ rRecv = {} /\ nData = 0
  /\ wIn = NoPacket /\ wOut = <<>> /\ wData = <<>> /\ wLastData = undefined

InitRoute ==
  /\ InitSocketsIdle
  /\ InitHistory /\ InitMux /\ talk = <<>> /\ InitGossipIdle /\ InitProofIdle
  /\ InitFramingIdle /\ InitNodeIdle /\ InitLateIdle
  /\ \E supportedNetworks \in SupportedNetworkOptions :
       /\ networks = NetworksOf(supportedNetworks)
       /\ supportsRendezvous = ("Rendezvous" \in supportedNetworks)
  /\ tIn = NoTalkReq /\ tCalls = <<>>

NextRoute == TalkReq

SpecRoute == InitRoute /\ [][NextRoute]_vars

\* The handlers onTalkReq handed the TALKREQ to.
Destinations == SelectSeq(tCalls, LAMBDA c : c.call # "sendPortalNetworkResponse")
Responses == SelectSeq(tCalls, LAMBDA c : c.call = "sendPortalNetworkResponse")

\* C26: a TALKREQ handled by onTalkReq has gone to the uTP multiplexer and to
\* nothing else when its protocol id is uTP's, to the handler of the overlay
\* network of its protocol id and to nothing else when the node has that
\* network, and otherwise to no handler, with one empty TALKRESP as the answer.
C26_RoutedToOneDestination ==
  tIn # NoTalkReq =>
    IF tIn.protocol = "UTPNetwork"
    THEN Destinations = <<[call |-> "uTP.handleUtpPacket", id |-> tIn.id]>>
    ELSE IF tIn.protocol \in networks
    THEN /\ Destinations = <<[call |-> "network.handle",
                              network |-> tIn.protocol, id |-> tIn.id]>>
         /\ Responses = <<>>
    ELSE /\ Destinations = <<>>
         /\ Responses = <<EmptyTalkResp(tIn.id)>>

\* A uTP TALKREQ went to the multiplexer of a node with two overlay networks.
C26_Witness ==
  /\ tIn.protocol = "UTPNetwork" /\ Len(Destinations) = 1
  /\ networks = {"HistoryNetwork", "StateNetwork"}

\* ------------------------------------------------- the gossip of new content
\* Node ids and content ids are 3 bits wide; the routing table holds six
\* peers, one more than a gossip considers.
RoutingTablePeers == {0, 1, 2, 3, 4, 6}
GossipKeys == {"0xa", "0xb"}
Radii == {undefined, 2}

\* getHistoryNetworkContentId: the content id of a key.
ContentIdOf(key) == IF key = "0xa" THEN 1 ELSE 6

\* distance(a, b): the XOR of the two ids.
RECURSIVE distance(_, _)
distance(a, b) ==
  IF a = 0 THEN b
  ELSE IF b = 0 THEN a
  ELSE 2 * distance(a \div 2, b \div 2) + (((a % 2) + (b % 2)) % 2)

\* routingTable.nearest(id, n): the n peers nearest to id, nearest first.
RECURSIVE nearest(_, _, _)
nearest(peers, id, n) ==
  IF n = 0 \/ peers = {} THEN <<>>
  ELSE LET p == CHOOSE q \in peers :
                  \A o \in peers : distance(q, id) <= distance(o, id)
       IN  <<p>> \o nearest(peers \ {p}, id, n - 1)

\* routingTable.getRadius(nodeId): undefined when none is recorded.
getRadius(radius, nodeId) ==
  IF MapHas(radius, nodeId) THEN radius[nodeId] ELSE undefined

contentKeyKnownToPeer(known, nodeId, key) == <<nodeId, key>> \in known

\* distance < radius as JavaScript compares a bigint with a radius that may
\* be undefined: false when it is.
LessThanRadius(d, radius) == radius # undefined /\ d < radius

\* gossipHistoryNetworkContent with no look at what the peer already knows.
gossipHistoryNetworkContent_OffersAgain(radius, known, key) ==
  LET contentId == ContentIdOf(key)
      nearestPeers == nearest(DOMAIN radius, contentId, 5)
  IN  SelectSeq(nearestPeers,
                LAMBDA peerId :
                  LessThanRadius(distance(peerId, contentId),
                                 getRadius(radius, peerId)))

\* gossipHistoryNetworkContent: the peers it sends an OFFER of key to, in
\* the order of the sends.
gossipHistoryNetworkContent(radius, known, key) ==
  LET contentId == ContentIdOf(key)
      nearestPeers == nearest(DOMAIN radius, contentId, 5)
  IN  SelectSeq(nearestPeers,
                LAMBDA peerId :
                  /\ ~contentKeyKnownToPeer(known, peerId, key)
                  /\ LessThanRadius(distance(peerId, contentId),
                                    getRadius(radius, peerId)))

\* sendOffer records the key as known to the peer.
sendOffer(known, nodeId, key) == known \cup {<<nodeId, key>>}

\* Content stored under key is gossiped; a key may be gossiped again.
Gossip ==
  \E key \in GossipKeys :
    \E offered \in {gossipHistoryNetworkContent(gRadius, gKnown, key)} :
      /\ gIn' = key
      /\ gOut' = {offered[i] : i \in DOMAIN offered}
      /\ gOffers' = gOffers \o [i \in DOMAIN offered |-> <<offered[i], key>>]
      /\ gKnown' = gKnown \cup {<<offered[i], key>> : i \in DOMAIN offered}
      /\ UNCHANGED <<utpVars, historyVars, muxVars, talkVars,
                     lateVars, routeVars, proofVars, framingVars, nodeVars, gRadius>>

InitGossip ==
  /\ InitSocketsIdle
  /\ InitHistory /\ InitMux /\ talk = <<>> /\ InitRouteIdle /\ InitProofIdle
  /\ InitFramingIdle /\ InitNodeIdle /\ InitLateIdle
  /\ gRadius \in [RoutingTablePeers -> Radii]
  /\ gKnown = {} /\ gOffers = <<>> /\ gIn = "none" /\ gOut = {}

NextGossip == Gossip

SpecGossip == InitGossip /\ [][NextGossip]_vars

\* How many OFFERs of key went to peer.
OffersTo(peerId, key) ==
  Cardinality({i \in DOMAIN gOffers : gOffers[i] = <<peerId, key>>})

\* C24: whatever content is gossiped, and however often, no peer has been
\* sent more than one OFFER of the same content key.
C24_AtMostOneOffer ==
  \A peerId \in RoutingTablePeers, key \in GossipKeys :
    OffersTo(peerId, key) <= 1

\* A key was gossiped again to peers that had all been offered it.
C24_Witness ==
  /\ gIn = "0xa" /\ gOut = {} /\ OffersTo(0, "0xa") = 1
  /\ \E i \in DOMAIN gOffers : gOffers[i][2] = "0xb"

\* C25: a gossip of a key sends an OFFER to a peer exactly when the peer is
\* among the 5 nearest to the content id, has a recorded radius that is at
\* least its distance to the content id, and had not been offered the key.
C25_OfferedIffNearCoveredNew ==
  [][\A peerId \in RoutingTablePeers :
       LET contentId == ContentIdOf(gIn')
           nearestPeers == nearest(RoutingTablePeers, contentId, 5)
       IN  peerId \in gOut' <=>
             /\ \E i \in DOMAIN nearestPeers : nearestPeers[i] = peerId
             /\ gRadius[peerId] # undefined
             /\ distance(peerId, contentId) <= gRadius[peerId]
             /\ <<peerId, gIn'>> \notin gKnown]_vars

\* ---------------------------------------------------------- inclusion proofs
\* An epoch accumulator is a list of header records (blockHash,
\* totalDifficulty), here of EPOCH_SIZE records.  A 32-byte chunk is a
\* one-element sequence, and the hash of two nodes is the pair of them, so
\* that two nodes hash alike only when they are alike.
EPOCH_SIZE == 2
ProofBlockNumbers == 0..(2 * EPOCH_SIZE - 1)
HashOfBlock(n) == <<100 + n>>
TotalDifficultyAt(n) == <<n + 1>>
hash(left, right) == <<left, right>>

epochIndexByBlocknumber(blockNumber) == blockNumber \div EPOCH_SIZE

\* The accumulator of the canonical chain for an epoch.
CanonicalEpoch(index) ==
  [i \in 1..EPOCH_SIZE |->
     [blockHash |-> HashOfBlock(index * EPOCH_SIZE + i - 1),
      totalDifficulty |-> TotalDifficultyAt(index * EPOCH_SIZE + i - 1)]]

\* EpochAccumulator.value_toTree: the node at a generalized index.  The
\* chunks of the records are the leaves below node 2, the length of the list
\* is node 3.
FirstLeafGindex == 4 * EPOCH_SIZE
RECURSIVE Node(_, _)
Node(accumulator, gindex) ==
  IF gindex = 3 THEN <<Len(accumulator)>>
  ELSE IF gindex >= FirstLeafGindex
  THEN LET record == accumulator[(gindex - FirstLeafGindex) \div 2 + 1]
       IN  IF gindex % 2 = 0 THEN record.blockHash ELSE record.totalDifficulty
  ELSE hash(Node(accumulator, 2 * gindex), Node(accumulator, 2 * gindex + 1))

hashTreeRoot(accumulator) == Node(accumulator, 1)

\* The roots of the epochs of the canonical chain, as shipped with the code.
epochRootByIndex(index) == hashTreeRoot(CanonicalEpoch(index))
epochRootByBlocknumber(blockNumber) ==
  epochRootByIndex(epochIndexByBlocknumber(blockNumber))

\* The generalized index of the blockHash chunk of a block's record.
blockNumberToGindex(blockNumber) ==
  FirstLeafGindex + 2 * (blockNumber % EPOCH_SIZE)

\* createProof(tree, {single, gindex}).witnesses: the siblings on the way up.
RECURSIVE createProof(_, _)
createProof(accumulator, gindex) ==
  IF gindex = 1 THEN <<>>
  ELSE <<Node(accumulator, IF gindex % 2 = 0 THEN gindex + 1 ELSE gindex - 1)>>
         \o createProof(accumulator, gindex \div 2)

\* The root of the tree that the leaf at gindex and the witnesses make.
RECURSIVE RootOfProof(_, _, _)
RootOfProof(leaf, witnesses, gindex) ==
  IF gindex = 1 \/ witnesses = <<>> THEN leaf
  ELSE RootOfProof(IF gindex % 2 = 0 THEN hash(leaf, Head(witnesses))
                   ELSE hash(Head(witnesses), leaf),
                   Tail(witnesses), gindex \div 2)

RECURSIVE DepthOf(_)
DepthOf(gindex) == IF gindex = 1 THEN 0 ELSE 1 + DepthOf(gindex \div 2)

\* EpochAccumulator.createFromProof(proof, target) throws unless the proof has
\* a witness for each level and makes a tree whose root is the target.
createFromProofThrows(proof, target) ==
  \/ Len(proof.witnesses) # DepthOf(proof.gindex)
  \/ RootOfProof(proof.leaf, proof.witnesses, proof.gindex) # target

\* generateInclusionProof: the witnesses, or a throw when no accumulator is
\* in the DB under the key of the epoch.
generateInclusionProof(d, blockNumber) ==
  LET key == getContentKey("EpochAccumulator",
                           epochRootByBlocknumber(blockNumber))
  IN  IF ~MapHas(d, key) THEN [witnesses |-> <<>>, threw |-> TRUE]
      ELSE [witnesses |-> createProof(d[key].records,
                                      blockNumberToGindex(blockNumber)),
            threw |-> FALSE]

\* verifyInclusionProof with the block number taken for the generalized index.
verifyInclusionProof_NumberAsGindex(witnesses, blockHash, blockNumber) ==
  ~createFromProofThrows(
     [gindex |-> blockNumber + 1, witnesses |-> witnesses,
      leaf |-> blockHash],
     epochRootByIndex(epochIndexByBlocknumber(blockNumber)))

\* verifyInclusionProof: TRUE when it returns true, FALSE when it throws.
verifyInclusionProof(witnesses, blockHash, blockNumber) ==
  ~createFromProofThrows(
     [gindex |-> blockNumberToGindex(blockNumber), witnesses |-> witnesses,
      leaf |-> blockHash],
     epochRootByIndex(epochIndexByBlocknumber(blockNumber)))

\* A chunk or a node with one byte altered.
RECURSIVE Altered(_)
Altered(node) ==
  IF Len(node) = 1 THEN <<node[1] + 1>> ELSE <<Altered(node[1]), node[2]>>

\* The witnesses with the one at position `at` altered, if there is one.
AlterWitness(witnesses, at) ==
  IF at \in DOMAIN witnesses
  THEN [witnesses EXCEPT ![at] = Altered(@)] ELSE witnesses

\* The accumulators a peer can offer for an epoch: the canonical one and one
\* whose last record bears another block hash.
AccumulatorValues(index) ==
  {[kind |-> "accumulator", records |-> CanonicalEpoch(index)],
   [kind |-> "accumulator",
    records |-> [CanonicalEpoch(index) EXCEPT
                   ![EPOCH_SIZE].blockHash = <<0>>]]}

\* A call of store with an epoch accumulator, which it puts unexamined.
ProofStore ==
  \E index \in 0..1, hasPeers \in BOOLEAN :
    \E value \in AccumulatorValues(index) :
      \E res \in {store(db, blockIndex, "EpochAccumulator",
                        epochRootByIndex(index), value, FALSE)} :
        /\ db' = res.db
        /\ blockIndex' = res.blockIndex
        /\ hIn' = [contentType |-> "EpochAccumulator",
                   hashKey |-> epochRootByIndex(index),
                   value |-> value, rejected |-> res.threw, again |-> FALSE]
        /\ hEmitted' = <<[event |-> "ContentAdded",
                          hashKey |-> epochRootByIndex(index),
                          contentType |-> "EpochAccumulator",
                          value |-> value]>>
        /\ hGossip' = IF hasPeers
                      THEN <<getContentKey("EpochAccumulator",
                                           epochRootByIndex(index))>>
                      ELSE <<>>
        /\ UNCHANGED <<utpVars, muxVars, talkVars, restVars>>

\* The DB holds the accumulator of the canonical chain for the epoch of the
\* block.
EpochAccumulatorStored(blockNumber) ==
  LET key == getContentKey("EpochAccumulator",
                           epochRootByBlocknumber(blockNumber))
  IN  /\ MapHas(db, key)
      /\ db[key].records = CanonicalEpoch(epochIndexByBlocknumber(blockNumber))

\* A proof is generated for a block and verified with the block's hash and
\* number, as it is or with one witness altered.
ProofRoundTrip ==
  \E blockNumber \in ProofBlockNumbers,
     at \in 0..DepthOf(FirstLeafGindex) :
    \E gen \in {generateInclusionProof(db, blockNumber)} :
      /\ pIn' = [blockNumber |-> blockNumber, altered |-> at,
                 stored |-> EpochAccumulatorStored(blockNumber)]
      /\ pGen' = gen
      /\ pOut' = IF gen.threw THEN "none"
                 ELSE IF verifyInclusionProof(
                           AlterWitness(gen.witnesses, at),
                           HashOfBlock(blockNumber), blockNumber)
                 THEN "accepts" ELSE "throws"
      /\ UNCHANGED <<utpVars, historyVars, muxVars, talkVars,
                     lateVars, routeVars, gossipVars, framingVars, nodeVars>>

InitProof ==
  /\ InitSocketsIdle
  /\ InitHistory /\ InitMux /\ talk = <<>>
  /\ InitRouteIdle /\ InitGossipIdle /\ InitProofIdle /\ InitFramingIdle
  /\ InitNodeIdle /\ InitLateIdle

NextProof == ProofStore \/ ProofRoundTrip

SpecProof == InitProof /\ [][NextProof]_vars

\* C23: when the accumulator of a block's epoch is in the DB,
\* generateInclusionProof returns witnesses for the block that
\* verifyInclusionProof accepts with the block's hash and number, and that it
\* rejects with a throw once any one of them has been altered.
C23_ProofRoundTrip ==
  pIn.stored =>
    /\ ~pGen.threw
    /\ pIn.altered = 0 => pOut = "accepts"
    /\ pIn.altered # 0 => pOut = "throws"

\* The proof of the second block of the second epoch was accepted.
C23_WitnessAccepted ==
  /\ pIn = [blockNumber |-> 3, altered |-> 0, stored |-> TRUE]
  /\ pOut = "accepts" /\ Len(pGen.witnesses) = 3

\* The same proof was rejected with its second witness altered.
C23_WitnessRejected ==
  /\ pIn = [blockNumber |-> 3, altered |-> 2, stored |-> TRUE]
  /\ pOut = "throws"

\* ------------------------------------------- batches of content items (OFFER)
\* A content item is given by its length and its first byte; its bytes count
\* up from the first byte.  The lengths put the end of a frame and a length
\* prefix on and across the end of a chunk.
MaxItems == 2
ItemLengths == {0, 1, 128, BUFFER_SIZE - 3, BUFFER_SIZE - 2}
FirstBytes == {0, 250}
Items == [length : ItemLengths, first : FirstBytes]
Batches == UNION {[1..k -> Items] : k \in 0..MaxItems}

ItemBytes(item) == [j \in 1..item.length |-> (item.first + j - 1) % 256]

\* The unsigned varint of n: 7 bits to a byte, low bits first, the high bit
\* set on every byte but the last.
RECURSIVE Uvarint(_)
Uvarint(n) ==
  IF n < 128 THEN <<n>> ELSE <<128 + (n % 128)>> \o Uvarint(n \div 128)

\* A frame with the length of the item in one byte.
Frame_OneByteLength(item) == <<Len(item) % 256>> \o item

\* The frame of an item: the uvarint of its length, then its bytes.
Frame(item) == Uvarint(Len(item)) \o item

\* encodeWithVariantPrefix: the frames of the items, one after the other.
RECURSIVE encodeWithVariantPrefix(_)
encodeWithVariantPrefix(items) ==
  IF items = <<>> THEN <<>>
  ELSE Frame(Head(items)) \o encodeWithVariantPrefix(Tail(items))

\* The uvarint that begins at position `at` of bytes, read in at most `left`
\* bytes, if all of it is there.
RECURSIVE ReadUvarintWithin(_, _, _)
ReadUvarintWithin(bytes, at, left) ==
  IF at > Len(bytes) \/ left = 0
  THEN [complete |-> FALSE, value |-> 0, next |-> at]
  ELSE IF bytes[at] < 128
  THEN [complete |-> TRUE, value |-> bytes[at], next |-> at + 1]
  ELSE LET rest == ReadUvarintWithin(bytes, at + 1, left - 1)
       IN  [complete |-> rest.complete,
            value |-> (bytes[at] - 128) + 128 * rest.value,
            next |-> rest.next]

\* The length prefix that begins at position `at` of bytes.  The lengths of
\* items fit in two bytes; a prefix that does not end within four is none.
ReadUvarint(bytes, at) == ReadUvarintWithin(bytes, at, 4)

\* The frames that are whole in bytes from position `at` on.
RECURSIVE ReadFrames(_, _)
ReadFrames(bytes, at) ==
  LET length == ReadUvarint(bytes, at)
  IN  IF ~length.complete \/ length.next + length.value - 1 > Len(bytes)
      THEN <<>>
      ELSE <<SubSeq(bytes, length.next, length.next + length.value - 1)>>
             \o ReadFrames(bytes, length.next + length.value)

\* The bytes of the content that the payloads of packets stand for.
RECURSIVE PayloadBytes(_, _)
PayloadBytes(bytes, payloads) ==
  IF payloads = <<>> THEN <<>>
  ELSE SubSeq(bytes, Head(payloads).lo + 1, Head(payloads).hi)
         \o PayloadBytes(bytes, Tail(payloads))

RECURSIVE SumOfLengths(_)
SumOfLengths(payloads) ==
  IF payloads = <<>> THEN 0
  ELSE PayloadLen(Head(payloads)) + SumOfLengths(Tail(payloads))

\* The content the writer of the batch was made with.
Encoded == encodeWithVariantPrefix([i \in DOMAIN fItems |-> ItemBytes(fItems[i])])

\* reader.bytesReceived and reader.contents.
bytesReceived == SumOfLengths(fReader.bytes)
contents == ReadFrames(PayloadBytes(Encoded, fReader.bytes), 1)

\* writer.chunk() and a DATA packet for each chunk, seq_nrs from 0.
FramingChunk ==
  /\ fStage = "new"
  /\ \E chunks \in {Chunk(Len(Encoded), 0)} :
       fPackets' = [i \in 1..Cardinality(DOMAIN chunks) |->
                      Packet("ST_DATA", i - 1, 0, 0, {}, chunks[i - 1])]
  /\ fReader' = NewContentReader(0)
  /\ fStage' = "chunked"
  /\ UNCHANGED <<utpVars, historyVars, muxVars, talkVars,
                 lateVars, routeVars, gossipVars, proofVars, nodeVars, fItems>>

\* reader.addPacket for the next packet.
FramingAddPacket ==
  /\ fStage = "chunked" /\ fPackets # <<>>
  /\ fReader' = AddPacket(fReader, Head(fPackets))
  /\ fPackets' = Tail(fPackets)
  /\ UNCHANGED <<utpVars, historyVars, muxVars, talkVars,
                 lateVars, routeVars, gossipVars, proofVars, nodeVars, fItems, fStage>>

InitFraming ==
  /\ InitSocketsIdle
  /\ InitHistory /\ InitMux /\ talk = <<>>
  /\ InitRouteIdle /\ InitGossipIdle /\ InitProofIdle /\ InitNodeIdle /\ InitLateIdle
  /\ fItems \in Batches
  /\ fStage = "new" /\ fPackets = <<>> /\ fReader = NoReader

NextFraming == FramingChunk \/ FramingAddPacket

SpecFraming == InitFraming /\ [][NextFraming]_vars

\* C29: when every DATA packet of the chunks of an encoded batch has been
\* given to the reader in seq_nr order, the reader has received as many bytes
\* as the encoding has and its contents are the items of the batch, one for
\* one and in order.
C29_BatchRoundTrip ==
  (fStage = "chunked" /\ fPackets = <<>>) =>
    /\ bytesReceived = Len(Encoded)
    /\ contents = [i \in DOMAIN fItems |-> ItemBytes(fItems[i])]

\* A batch whose second length prefix lies across the end of the first chunk
\* has been read.
C29_Witness ==
  /\ fStage = "chunked" /\ fPackets = <<>>
  /\ Len(fItems) = 2
  /\ fItems[1].length = BUFFER_SIZE - 3 /\ fItems[2].length = 128
  /\ fItems[2].first = 250 /\ Len(contents) = 2
  /\ Len(fReader.bytes) = 2

\* ------------------------------------------- the node details kept for restart
PrivateKeys == {"priv1", "priv2"}
PublicOf(privateKey) == IF privateKey = "priv1" THEN "pub1" ELSE "pub2"
\* Math.floor(Math.random() * 990) + 9009
PortSamples == {9009, 9998}
PeerEnrs ==
  {[publicKey |-> k, ip |-> "10.0.0.9", udp |-> 9000, c |-> "u 0.0.1"] :
     k \in {"pubA"}}
BootnodeOptions == {<<>>, <<"enr:boot">>}
NodeNetworks == {{"HistoryNetwork", "StateNetwork"}}

toHexString(bytes) == <<"0x", bytes>>
hexToBytes(hex) == hex[2]
JSONStringify(value) == <<"json", value>>
JSONParse(text) == text[2]

\* enr.encodeTxt(): the text of the record, which holds no private key.
encodeTxt(enr) == <<"enr:", enr.publicKey, enr.ip, enr.udp, enr.c>>

\* SignableENR.decodeTxt(text, privateKey): the record with its key pair.
decodeTxt(text, privateKey) ==
  [publicKey |-> text[2], ip |-> text[3], udp |-> text[4], c |-> text[5],
   privateKey |-> privateKey]

peerIdFromKeys(publicKey, privateKey) ==
  [privateKey |-> privateKey, publicKey |-> publicKey]

\* SignableENR.createFromPeerId: a record with no location yet.
createFromPeerId(peerId) ==
  [publicKey |-> peerId.publicKey, ip |-> "none", udp |-> undefined,
   c |-> "none", privateKey |-> peerId.privateKey]

\* The entries of a routing table and the networks of a node, in the order
\* the code walks them.
RECURSIVE ValuesInOrder(_)
ValuesInOrder(S) ==
  IF S = {} THEN <<>>
  ELSE LET e == CHOOSE x \in S : x.publicKey = "pubA" \/ S = {x}
       IN  <<e>> \o ValuesInOrder(S \ {e})
NetworksInOrder(tables) ==
  SelectSeq(<<"HistoryNetwork", "StateNetwork">>,
            LAMBDA id : id \in DOMAIN tables)

\* The peers storeNodeDetails collects: the text of every ENR of every
\* routing table.
RECURSIVE PeersOf(_, _)
PeersOf(tables, ids) ==
  IF ids = <<>> THEN <<>>
  ELSE LET values == ValuesInOrder(tables[Head(ids)])
       IN  [i \in DOMAIN values |-> encodeTxt(values[i])]
             \o PeersOf(tables, Tail(ids))

\* storeNodeDetails: the DB after it; a batch that throws is logged and
\* leaves the DB as it was.
storeNodeDetails(node, d, batchThrows) ==
  LET peers == PeersOf(node.tables, NetworksInOrder(node.tables))
      batch == ("enr" :> encodeTxt(node.enr))
                 @@ ("privateKey" :> toHexString(node.peerId.privateKey))
                 @@ ("publicKey" :> toHexString(node.peerId.publicKey))
                 @@ ("peers" :> JSONStringify(peers))
  IN  IF batchThrows THEN d ELSE batch @@ d

\* The constructor: discv5 takes the ENR and the 'c' key is set; a routing
\* table for each network, all of them empty.
NewPortalNetwork(enr, peerId, bootnodes, nets) ==
  [op |-> "node", enr |-> [enr EXCEPT !.c = "u 0.0.1"], peerId |-> peerId,
   bootnodes |-> bootnodes,
   tables |-> [id \in nets |-> {}]]

\* create that takes the bootnodes of the options alone.
create_ForgetsPeers(opts, d) ==
  LET rebuild == opts.rebuildFromMemory
      peerId == IF rebuild
                THEN peerIdFromKeys(hexToBytes(d["publicKey"]),
                                    hexToBytes(d["privateKey"]))
                ELSE peerIdFromKeys(PublicOf(opts.newKey), opts.newKey)
      enr == IF rebuild THEN decodeTxt(d["enr"], peerId.privateKey)
             ELSE createFromPeerId(peerId)
      bootnodes == opts.bootnodes
      located == IF opts.bindAddrsIp4 = "none"
                 THEN [enr EXCEPT !.ip = opts.bindAddress, !.udp = opts.port]
                 ELSE enr
  IN  NewPortalNetwork(located, peerId, bootnodes, opts.supportedNetworks)

\* PortalNetwork.create with a DB in the options: the node it returns.  With
\* rebuildFromMemory the key pair, the ENR and the peers come from the DB;
\* without config.bindAddrs.ip4 the ENR is given the bind address and a random
\* port.
create(opts, d) ==
  LET rebuild == opts.rebuildFromMemory
      peerId == IF rebuild
                THEN peerIdFromKeys(hexToBytes(d["publicKey"]),
                                    hexToBytes(d["privateKey"]))
                ELSE peerIdFromKeys(PublicOf(opts.newKey), opts.newKey)
      enr == IF rebuild THEN decodeTxt(d["enr"], peerId.privateKey)
             ELSE createFromPeerId(peerId)
      prev_peers == IF rebuild THEN JSONParse(d["peers"]) ELSE <<>>
      bootnodes == IF ~rebuild THEN opts.bootnodes
                   ELSE IF Len(opts.bootnodes) > 0
                   THEN opts.bootnodes \o prev_peers
                   ELSE prev_peers
      located == IF opts.bindAddrsIp4 = "none"
                 THEN [enr EXCEPT !.ip = opts.bindAddress, !.udp = opts.port]
                 ELSE enr
  IN  NewPortalNetwork(located, peerId, bootnodes, opts.supportedNetworks)

\* The options of a call of create; bootnodes left out are the empty list.
CreateOptions ==
  [rebuildFromMemory : BOOLEAN, newKey : PrivateKeys,
   bootnodes : BootnodeOptions, bindAddrsIp4 : {"none", "/ip4/10.0.0.1/udp/9000"},
   bindAddress : {"10.0.0.2"}, port : PortSamples,
   supportedNetworks : NodeNetworks]

\* A node is created: anew at its first start, and from the details in the
\* DB when it is started again; with no details in the DB the reads of a
\* rebuild throw.
NodeCreate ==
  \E opts \in CreateOptions :
    /\ IF opts.rebuildFromMemory THEN "enr" \in DOMAIN nDb
       ELSE nNode = NoNode /\ opts.bootnodes = <<>>
    /\ nNode' = create(opts, nDb)
    /\ nIn' = [op |-> "create",
               opts |-> [rebuildFromMemory |-> opts.rebuildFromMemory,
                         bootnodes |-> opts.bootnodes,
                         bindAddrsIp4 |-> opts.bindAddrsIp4,
                         bindAddress |-> opts.bindAddress,
                         port |-> opts.port]]
    /\ UNCHANGED <<utpVars, historyVars, muxVars, talkVars,
                   lateVars, routeVars, gossipVars, proofVars, framingVars, nDb, nStored>>

\* A peer enters a routing table of the node.
NodePeerAdded ==
  /\ nNode # NoNode
  /\ \E id \in DOMAIN nNode.tables, enr \in PeerEnrs :
       /\ enr \notin nNode.tables[id]
       /\ nNode' = [nNode EXCEPT !.tables[id] = @ \cup {enr}]
       /\ nIn' = [op |-> "peer"]
  /\ UNCHANGED <<utpVars, historyVars, muxVars, talkVars,
                 lateVars, routeVars, gossipVars, proofVars, framingVars, nDb, nStored>>

NodeStoreNodeDetails ==
  /\ nNode # NoNode
  /\ \E batchThrows \in BOOLEAN :
       /\ nDb' = storeNodeDetails(nNode, nDb, batchThrows)
       /\ nStored' = [op |-> "storeNodeDetails", written |-> ~batchThrows,
                      enr |-> nNode.enr, peerId |-> nNode.peerId,
                      peers |-> PeersOf(nNode.tables,
                                        NetworksInOrder(nNode.tables))]
       /\ nIn' = [op |-> "storeNodeDetails"]
  /\ UNCHANGED <<utpVars, historyVars, muxVars, talkVars,
                 lateVars, routeVars, gossipVars, proofVars, framingVars, nNode>>

InitNode ==
  /\ InitSocketsIdle
  /\ InitHistory /\ InitMux /\ talk = <<>>
  /\ InitRouteIdle /\ InitGossipIdle /\ InitProofIdle /\ InitFramingIdle
  /\ InitNodeIdle /\ InitLateIdle

NextNode == NodeCreate \/ NodePeerAdded \/ NodeStoreNodeDetails

SpecNode == InitNode /\ [][NextNode]_vars

\* The node has just been rebuilt from the DB after a storeNodeDetails.
Rebuilt ==
  /\ nIn.op = "create" /\ nIn.opts.rebuildFromMemory
  /\ nStored.op = "storeNodeDetails"

SuppliedBootnodes == nIn.opts.bootnodes

BurstLast == 1030

BurstNext == IF nData < 2 THEN peer + nData ELSE peer + nData + 1

InitBurst ==
  /\ InitClient
  /\ flow = "OFFER"
  /\ content = BurstLast * BUFFER_SIZE
  /\ peer = 1
  /\ \E r \in RandUint16Samples : rs = ReaderSocket(flow, r)
  /\ ws = WriterSocket(flow, content)
  /\ qR = <<>> /\ qW = <<>>
  /\ rIn = NoPacket /\ rExp = FALSE /\ rOut = <<>> /\ rRet = RetUndefined
  /\ rRecv = {} /\ nData = 0
  /\ wIn = NoPacket /\ wOut = <<>> /\ wData = <<>> /\ wLastData = undefined

BurstSyn ==
  /\ rs.state = "null"
  /\ ReaderStep(PeerSyn, FALSE)
  /\ UNCHANGED <<clientVars, flow, content, peer, qR, qW, writerVars>>

BurstData ==
  /\ rs.state # "null"
  /\ BurstNext <= BurstLast
  /\ ReaderStep(Packet("ST_DATA", BurstNext, 0, 0, {}, PeerChunks[BurstNext]),
                FALSE)
  /\ UNCHANGED <<clientVars, flow, content, peer, qR, qW, writerVars>>

NextBurst == BurstSyn \/ BurstData

SpecBurst == InitBurst /\ [][NextBurst]_vars

\* The packets that wait in the reader: those it holds and has not read.
Buffered(s) == {k \in DOMAIN s.reader.packets : k >= s.reader.nextDataNr}

\* --------------------------------------------------------------------- C31
\* C31: a READ socket buffers at most 1024 out-of-order packets; the DATA
\* packet that would be the 1025th is answered with a RESET and not buffered.
C31_BufferCapped ==
  /\ Cardinality(Buffered(rs)) <= 1024
  /\ (rIn.pType = "ST_DATA" /\ nData > 1024 + 2) =>
       /\ Sends(rOut, "ST_RESET")
       /\ rIn.seqNr \notin Buffered(rs)

\* --------------------- a WRITE socket, its congestion controller and close()
\* The controller emits 'write' when the window opens.  canSend() resolves at
\* once, or it sets the timeout and waits: for the window, and then it
\* resolves, or for the timeout, and then it rejects.  The socket's peer may
\* send a FIN at any time, and the WRITE socket closes on it.
Signal(name) == Packet(name, 0, 0, 0, {}, NoPayload)

\* writer.write() would call sendDataPacket.
WillSend(s) ==
  /\ s.writer.writing
  /\ Len(s.writer.sentChunks) < Cardinality(DOMAIN s.writer.dataChunks)

InitClose == InitCommon /\ flow = "FINDCONTENT" /\ peer = 0

CloseSyn ==
  /\ ws.state = "null"
  /\ \E rand \in RandUint16Samples :
       WriterStep(Packet("ST_SYN", InitiatorSeqNr, 0, 0, {}, NoPayload), rand,
                  TRUE)
  /\ UNCHANGED <<clientVars, flow, content, peer, qR, qW, readerVars>>

\* congestionControl.emit('write'): the listener, if it is still there, calls
\* writer.write(), whose sendDataPacket may have to wait in canSend().
CloseEmitWrite ==
  /\ ws.hasWriter /\ (~cWaiting \/ ~ws.listening)
  /\ \E waits \in BOOLEAN :
       IF ~ws.listening
       THEN /\ ~waits
            /\ WriterEffect(Result(ws, <<>>, RetUndefined), Signal("write"),
                            FALSE)
            /\ cWaiting' = cWaiting
       ELSE IF waits
       THEN /\ WillSend(ws)
            /\ WriterEffect(Result([ws EXCEPT !.state = "Connected",
                                              !.timeoutCounter = TRUE],
                                   <<>>, RetUndefined), Signal("write"), FALSE)
            /\ cWaiting' = TRUE
       ELSE /\ WriterEffect(WriterWrite(ws, TRUE), Signal("write"), FALSE)
            /\ cWaiting' = cWaiting
  /\ UNCHANGED <<historyVars, muxVars, talkVars, routeVars, gossipVars,
                 proofVars, framingVars, nodeVars, flow, content, peer, qR, qW,
                 readerVars, tErr, sIn, endVars>>

\* The window opens while canSend() waits: it clears the timeout and resolves,
\* if close() has not removed its listener.
CloseCanSend ==
  /\ cWaiting /\ ws.listening
  /\ WriterEffect(WriterWrite([ws EXCEPT !.timeoutCounter = FALSE], TRUE),
                  Signal("canSend"), FALSE)
  /\ cWaiting' = FALSE
  /\ UNCHANGED <<historyVars, muxVars, talkVars, routeVars, gossipVars,
                 proofVars, framingVars, nodeVars, flow, content, peer, qR, qW,
                 readerVars, tErr, sIn, endVars>>

\* The timeout fires while canSend() waits: canSend() rejects.
CloseTimeout ==
  /\ cWaiting /\ ws.timeoutCounter
  /\ WriterEffect(WriterWrite([ws EXCEPT !.timeoutCounter = FALSE], FALSE),
                  Signal("timeout"), FALSE)
  /\ cWaiting' = FALSE
  /\ UNCHANGED <<historyVars, muxVars, talkVars, routeVars, gossipVars,
                 proofVars, framingVars, nodeVars, flow, content, peer, qR, qW,
                 readerVars, tErr, sIn, endVars>>

\* The WRITE socket handles a FIN of its peer.
CloseFin ==
  /\ ws.state # "null" /\ ws.listening
  /\ WriterStep(Packet("ST_FIN", 0, 0, 0, {}, NoPayload), 0, TRUE)
  /\ UNCHANGED <<clientVars, flow, content, peer, qR, qW, readerVars>>

NextClose ==
  CloseSyn \/ CloseEmitWrite \/ CloseCanSend \/ CloseTimeout \/ CloseFin

SpecClose == InitClose /\ [][NextClose]_vars

\* --------------------------------------------------------------------- C32
\* close() has been called on the WRITE socket: by handleFinPacket, or by
\* sendDataPacket after its RESET.
C32_Closed(s) == s.state \in {"GotFin", "Reset"}

\* C32: after close() the timeout of the congestion controller is cleared and
\* the 'write' listener is removed, and neither a 'write' signal nor the
\* timeout nor the opening of the window makes the socket send a packet.
C32_CloseCancels ==
  [][/\ C32_Closed(ws') => (~ws'.listening /\ ~ws'.timeoutCounter)
     /\ (C32_Closed(ws) /\ wIn'.pType \in {"write", "timeout", "canSend"})
          => (wOut' = <<>> /\ ws' = ws)]_vars

\* The socket was closed by a FIN while a sendDataPacket waited in canSend()
\* with chunks left to send, and 'write' was emitted afterwards.
C32_Witness ==
  /\ ws.state = "GotFin" /\ cWaiting /\ WillSend(ws)
  /\ wIn.pType = "write" /\ wOut = <<>>

\* ------------------------------------------ uTP packets that arrive by TALKREQ
\* The socket's handler of the packet throws: handleFinPacket of a READ socket
\* that has no reader yet (this.reader!.lastDataNr), handleStatePacket of a
\* WRITE socket that has no writer yet (this.writer!.dataChunks).
HandlerThrows(s, pkt) ==
  \/ pkt.pType = "ST_FIN" /\ s.type = "READ" /\ ~s.hasReader
  \/ /\ pkt.pType = "ST_STATE" /\ ~IsSynAck(s, pkt) /\ pkt.ackNr # s.finNr
     /\ s.type = "WRITE" /\ ~s.hasWriter

\* handleUTP with no try around uTP.handleUtpPacket.
handleUTPRejects_NoCatch(threw) == threw

\* Whether handleUTP rejects when uTP.handleUtpPacket threw or did not: the
\* catch logs the error's message.
handleUTPRejects(threw) == FALSE

\* A TALKREQ with the uTP protocol id brings a packet of the peer of an open
\* request.
UtpTalkReq ==
  \E id \in MessageIds, key \in DOMAIN openContentRequest :
    \E pkt \in MuxPackets(openContentRequest[key]) :
      /\ mHandled < MaxHandled
      /\ tIn' = [protocol |-> "UTPNetwork", id |-> id]
      /\ tCalls' = onTalkReq(networks, "UTPNetwork", id)
      /\ \E res \in {handleUtpPacket(openContentRequest, key, pkt, 0, TRUE)} :
           openContentRequest' = res.table
      /\ \E threw \in {HandlerThrows(openContentRequest[key].socket, pkt)} :
           tErr' = [threw |-> threw, rejected |-> handleUTPRejects(threw)]
      /\ mIn' = [op |-> "handleUtpPacket", key |-> key, pType |-> pkt.pType]
      /\ mSent' = FALSE
      /\ mHandled' = mHandled + 1
      /\ UNCHANGED <<utpVars, historyVars, talkVars, networks,
                     supportsRendezvous, gossipVars, proofVars, framingVars,
                     nodeVars, cWaiting, sIn, endVars>>

NextUtpReq == MuxHandleNewRequest \/ UtpTalkReq

SpecUtpReq == InitMuxSpec /\ [][NextUtpReq]_vars

\* --------------------------------------------------------------------- C33
\* C33: a TALKREQ on the uTP protocol id is answered with an empty TALKRESP,
\* then its packet is handed to the multiplexer, and handleUTP does not reject
\* when handling the packet threw.
C33_AnsweredThenSwallowed ==
  tIn.protocol = "UTPNetwork" =>
    /\ tCalls = <<EmptyTalkResp(tIn.id),
                  [call |-> "uTP.handleUtpPacket", id |-> tIn.id]>>
    /\ ~tErr.rejected

\* A FIN came for a FINDCONTENT_READ request whose socket had no reader yet.
C33_Witness ==
  /\ tIn.protocol = "UTPNetwork" /\ tErr.threw
  /\ mIn.op = "handleUtpPacket" /\ mIn.pType = "ST_FIN"

\* ---------------------------------------------------------- sendFindContent
\* What the peer answers to a FINDCONTENT: nothing, a message that is not
\* CONTENT, or a CONTENT message, which is a connection id, content of the
\* block asked for or a list of ENRs.
NoValue == [kind |-> "none"]
Response(kind, selector, id, value) ==
  [kind |-> kind, selector |-> selector, id |-> id, value |-> value]

FindContentResponses(contentType, hashKey) ==
  {Response("empty", "none", 0, NoValue), Response("NODES", "none", 0, NoValue),
   Response("CONTENT", "ENRS", 0, NoValue)}
    \cup {Response("CONTENT", "UTP", id, NoValue) : id \in ConnectionIds}
    \cup {Response("CONTENT", "CONTENT", 0, v) :
             v \in {x \in ValuesOf(contentType) :
                      /\ x.kind = "header" => x.hash = hashKey
                      /\ x.kind = "body" => x.of = hashKey}}

\* The block hashes content is asked for.
FindHashes == {"0xa"}

FindContentResult(calls, ret) == [calls |-> calls, ret |-> ret]

\* sendFindContent that goes on without an ENR of the peer.
sendFindContent_NoEnrCheck(hasEnr, res, dstId, key) ==
  IF res.kind # "CONTENT" THEN FindContentResult(<<>>, "undefined")
  ELSE IF res.selector = "UTP"
  THEN FindContentResult(
         <<[call |-> "handleNewRequest", contentKeys |-> <<key>>,
            peerId |-> dstId, connectionId |-> res.id,
            requestCode |-> "FINDCONTENT_READ"]>>, "decoded")
  ELSE FindContentResult(<<>>, "decoded")

\* sendFindContent(dstId, key): the calls it makes and what it returns.
\* hasEnr: the routing table has an ENR for dstId.
sendFindContent(hasEnr, res, dstId, key) ==
  IF ~hasEnr THEN FindContentResult(<<>>, "undefined")
  ELSE IF res.kind = "empty" THEN FindContentResult(<<>>, "undefined")
  ELSE IF res.kind # "CONTENT" THEN FindContentResult(<<>>, "undefined")
  ELSE IF res.selector = "UTP"
  THEN FindContentResult(
         <<[call |-> "handleNewRequest", contentKeys |-> <<key>>,
            peerId |-> dstId, connectionId |-> res.id,
            requestCode |-> "FINDCONTENT_READ"]>>, "decoded")
  ELSE IF res.selector = "CONTENT"
  THEN FindContentResult(
         <<[call |-> "store", contentType |-> key[1], hashKey |-> key[2],
            value |-> res.value]>>, "decoded")
  ELSE FindContentResult(<<>>, "decoded")

\* A call of sendFindContent and of what it calls.
FindContent ==
  \E hasEnr \in BOOLEAN, dstId \in PeerIds, contentType \in ContentTypes :
    \E hashKey \in FindHashes :
    \E res \in FindContentResponses(contentType, hashKey) :
      \E r \in {sendFindContent(hasEnr, res, dstId,
                                getContentKey(contentType, hashKey))} :
        /\ sIn' = [op |-> "sendFindContent", hasEnr |-> hasEnr, res |-> res,
                   dstId |-> dstId, key |-> getContentKey(contentType, hashKey),
                   calls |-> r.calls, ret |-> r.ret]
        /\ IF r.calls # <<>> /\ r.calls[1].call = "handleNewRequest"
           THEN \E m \in {handleNewRequest(openContentRequest,
                            r.calls[1].requestCode, "HistoryNetwork",
                            r.calls[1].peerId, r.calls[1].connectionId, 0, 0)} :
                  /\ openContentRequest' = m.table
                  /\ mIn' = [op |-> "handleNewRequest",
                             requestCode |-> r.calls[1].requestCode,
                             key |-> createSocketKey(r.calls[1].peerId,
                                                     r.calls[1].connectionId),
                             out |-> m.out]
                  /\ UNCHANGED <<mSent, mHandled>>
           ELSE UNCHANGED muxVars
        /\ IF r.calls # <<>> /\ r.calls[1].call = "store"
           THEN \E s \in {store(db, blockIndex, contentType, hashKey, res.value,
                                FALSE)} :
                  /\ db' = s.db
                  /\ blockIndex' = s.blockIndex
                  /\ hIn' = [contentType |-> contentType, hashKey |-> hashKey,
                             value |-> res.value, rejected |-> s.threw,
                             again |-> /\ hIn.contentType = contentType
                                       /\ hIn.hashKey = hashKey
                                       /\ hIn.value = res.value]
                  /\ hEmitted' = <<[event |-> "ContentAdded",
                                    hashKey |-> hashKey,
                                    contentType |-> contentType,
                                    value |-> res.value]>>
                  /\ hGossip' = <<>>
           ELSE UNCHANGED historyVars
        /\ UNCHANGED <<utpVars, talkVars, routeVars, gossipVars, proofVars,
                       framingVars, nodeVars, cWaiting, tErr, endVars>>

NextFindContent == FindContent

SpecFindContent == InitStore /\ [][NextFindContent]_vars

\* --------------------------------------------------------------------- C34
\* The call registered one FINDCONTENT_READ request for the peer, the
\* connection id and the content key, and no other.
C34_OneRequest(call, before, after) ==
  LET k == createSocketKey(call.dstId, call.res.id)
  IN  /\ call.calls = <<[call |-> "handleNewRequest",
                         contentKeys |-> <<call.key>>, peerId |-> call.dstId,
                         connectionId |-> call.res.id,
                         requestCode |-> "FINDCONTENT_READ"]>>
      /\ DOMAIN after = DOMAIN before \cup {k}
      /\ after[k].requestCode = "FINDCONTENT_READ"
      /\ after[k].peerId = call.dstId /\ after[k].connectionId = call.res.id
      /\ \A j \in DOMAIN before \ {k} : after[j] = before[j]

\* C34: sendFindContent registers one FINDCONTENT_READ request when the
\* CONTENT response is a connection id, hands the content to store() when it
\* is the content, and registers and stores nothing when it is a list of ENRs,
\* when the response is empty and when the peer has no ENR, in which two cases
\* it returns undefined.
C34_BySelector ==
  [][LET call == sIn'
         stored == store(db, blockIndex, call.key[1], call.key[2],
                         call.res.value, FALSE)
     IN  IF ~call.hasEnr \/ call.res.kind = "empty"
         THEN /\ call.ret = "undefined" /\ call.calls = <<>>
              /\ openContentRequest' = openContentRequest
              /\ db' = db /\ blockIndex' = blockIndex
         ELSE IF call.res.kind = "CONTENT" /\ call.res.selector = "UTP"
         THEN /\ C34_OneRequest(call, openContentRequest, openContentRequest')
              /\ db' = db /\ blockIndex' = blockIndex
         ELSE IF call.res.kind = "CONTENT" /\ call.res.selector = "CONTENT"
         THEN /\ openContentRequest' = openContentRequest
              /\ Len(call.calls) = 1 /\ call.calls[1].call = "store"
              /\ db' = stored.db /\ blockIndex' = stored.blockIndex
         ELSE /\ openContentRequest' = openContentRequest
              /\ db' = db /\ blockIndex' = blockIndex]_vars

\* A connection id was answered after content had been stored, and a request
\* was already open under the other connection id.
C34_Witness ==
  /\ sIn.op = "sendFindContent" /\ sIn.res.selector = "UTP"
  /\ Cardinality(DOMAIN openContentRequest) = 2
  /\ db # EmptyMap

\* --------------------------------------------------------------------- C35
\* C35: once the state of a socket is Closed or Reset, no operation on the
\* socket changes it.
C35_TerminalStatesStay ==
  [][/\ ws.state \in {"Closed", "Reset"} => ws'.state = ws.state
     /\ rs.state \in {"Closed", "Reset"} => rs'.state = rs.state]_vars

\* ------------------------------ a READ socket that is sent STATE packets too
\* The peer's STATE packets bear the ack_nr 0, the seq_nr of the READ socket's
\* SYN or, as seq_nrs go round, the seq_nr of the peer's own FIN.
ReadState ==
  /\ rs.state # "null"
  /\ RequestOpen(rs)
  /\ \E ack \in {0, InitiatorSeqNr, PeerFin.seqNr} :
       ReaderStep(Packet("ST_STATE", peer, ack, 0, {}, NoPayload), FALSE)
  /\ UNCHANGED <<clientVars, flow, content, peer, qR, qW, writerVars>>

NextReadState == NextRead \/ ReadState

SpecReadState == InitRead /\ [][NextReadState]_vars

\* --------------------------------------------------------------------- C36
\* C36: handleStatePacket of a READ socket leaves the socket's state, ackNr,
\* finNr and reader as they were, whatever the ack_nr of the packet.
C36_StatePacketChangesNothing ==
  [][(rIn'.pType = "ST_STATE" /\ ~IsSynAck(rs, rIn')) =>
       /\ rs'.state = rs.state /\ rs'.ackNr = rs.ackNr
       /\ rs'.finNr = rs.finNr /\ rs'.reader = rs.reader]_vars

\* ------------------------- a WRITE socket whose seq_nr starts at the edge
\* randUint16() returns one of the two largest 16-bit values; the peer's
\* STATE packets carry 16-bit ack_nrs on either side of the wrap.
EdgeSeeds == {65534, 65535}

EdgeAckNrs == {65534, 65535, 0, 1}

InitEdge == InitCommon /\ peer = 0

EdgeSyn ==
  /\ flow = "FINDCONTENT"
  /\ \E rand \in EdgeSeeds, canSend \in BOOLEAN :
       WriterStep(Packet("ST_SYN", InitiatorSeqNr, 0, 0, {}, NoPayload), rand,
                  canSend)
  /\ UNCHANGED <<clientVars, flow, content, peer, qR, qW, readerVars>>

EdgeState ==
  /\ ws.state # "null"
  /\ \E ack \in EdgeAckNrs, canSend \in BOOLEAN :
       WriterStep(Packet("ST_STATE", 0, ack, 0, {}, NoPayload), 0, canSend)
  /\ UNCHANGED <<clientVars, flow, content, peer, qR, qW, readerVars>>

NextEdge == WriteInit \/ EdgeSyn \/ EdgeState \/ WriteOnWrite

SpecEdge == InitEdge /\ [][NextEdge]_vars

\* C37: every packet the socket creates has a seq_nr and an ack_nr in
\* 0..65535, whatever the seed of the seq_nr and however many DATA packets
\* were sent.
C37_SixteenBit ==
  \A i \in 1..Len(wOut) :
    /\ wOut[i].seqNr \in 0..65535
    /\ wOut[i].ackNr \in 0..65535

\* ------------------------------ calls of getBlockByHash that wait for a body
\* The calls that can overlap.
MaxBodyCalls == 3

BodyCalls == 1..MaxBodyCalls

\* client.removeAllListeners('ContentAdded').
removeAllListeners(ls) == {}

\* The listener a call registered takes the events of its own block hash.
ListenersFor(key) == {c \in listeners : bCalls[c].hash = key}

Resolve(call, with) ==
  [call EXCEPT !.outcome = IF @ = "pending" THEN with ELSE @]

\* getBlockByHash(blockHash, true) when the body lookup returned a uTP
\* connection id: it registers a ContentAdded listener and a 2-second timer.
BodyWait ==
  /\ \E c \in BodyCalls \ DOMAIN bCalls, blockHash \in Hashes :
       /\ listeners' = listeners \cup {c}
       /\ bCalls' = (c :> [hash |-> blockHash, timer |-> TRUE,
                           outcome |-> "pending"]) @@ bCalls
       /\ bIn' = [op |-> "wait", key |-> blockHash, resolved |-> {}]
  /\ UNCHANGED <<utpVars, historyVars, muxVars, talkVars, routeVars,
                 gossipVars, proofVars, framingVars, nodeVars, cWaiting, tErr,
                 sIn, timerVars, accVars>>

\* The client emits ContentAdded for a block hash: each listener of that hash
\* resolves its call with the block and removes the listeners.
BodyAdded ==
  /\ \E key \in Hashes :
       /\ listeners' = IF ListenersFor(key) = {} THEN listeners
                       ELSE removeAllListeners(listeners)
       /\ bCalls' = [c \in DOMAIN bCalls |->
                       IF c \in ListenersFor(key)
                       THEN Resolve(bCalls[c], "block") ELSE bCalls[c]]
       /\ bIn' = [op |-> "ContentAdded", key |-> key,
                  resolved |-> ListenersFor(key)]
  /\ UNCHANGED <<utpVars, historyVars, muxVars, talkVars, routeVars,
                 gossipVars, proofVars, framingVars, nodeVars, cWaiting, tErr,
                 sIn, timerVars, accVars>>

\* The 2-second timer of a call fires: it removes the listeners and resolves
\* the call with the header alone.
BodyTimeout ==
  /\ \E c \in DOMAIN bCalls :
       /\ bCalls[c].timer
       /\ listeners' = removeAllListeners(listeners)
       /\ bCalls' = [bCalls EXCEPT ![c] = [Resolve(@, "header")
                                             EXCEPT !.timer = FALSE]]
       /\ bIn' = [op |-> "timeout", key |-> bCalls[c].hash, resolved |-> {c}]
  /\ UNCHANGED <<utpVars, historyVars, muxVars, talkVars, routeVars,
                 gossipVars, proofVars, framingVars, nodeVars, cWaiting, tErr,
                 sIn, timerVars, accVars>>

NextBody == BodyWait \/ BodyAdded \/ BodyTimeout

SpecBody == InitStore /\ [][NextBody]_vars

\* C38: the completion or the timeout of one call of getBlockByHash removes
\* no ContentAdded listener of another call.
C38_OtherListenersKept ==
  [][bIn'.op \in {"ContentAdded", "timeout"} =>
       \A c \in listeners : c \notin bIn'.resolved => c \in listeners']_vars

\* ------------------------------------------- start(), stop() and the timers
\* How many times start() is called.
MaxStarts == 2

\* A timer is named by its network and the call of start() that made it.
StartsSoFar == Cardinality({id[2] : id \in DOMAIN intervals})

\* start(): discv5 and the DB are started (starting either again does
\* nothing), and each network gets a new 30-second timer, whose handle
\* replaces the one the map held for the network.
Start ==
  /\ StartsSoFar < MaxStarts
  /\ \E fresh \in {{<<n, StartsSoFar + 1>> : n \in networks}} :
       /\ discv5Started' = TRUE
       /\ dbOpen' = TRUE
       /\ refreshListeners' = [n \in networks |-> <<n, StartsSoFar + 1>>]
       /\ intervals' = [id \in DOMAIN intervals \cup fresh |->
                          IF id \in fresh THEN TRUE ELSE intervals[id]]
       /\ kIn' = [op |-> "start", stopped |-> FALSE]
  /\ UNCHANGED <<utpVars, historyVars, muxVars, talkVars, routeVars,
                 gossipVars, proofVars, framingVars, nodeVars, cWaiting, tErr,
                 sIn, waitVars, accVars>>

\* stop(): discv5 is stopped, the DB closed, and the timers whose handles the
\* map holds are cleared.
Stop ==
  /\ discv5Started' = FALSE
  /\ dbOpen' = FALSE
  /\ intervals' = [id \in DOMAIN intervals |->
                     IF \E n \in DOMAIN refreshListeners :
                          refreshListeners[n] = id
                     THEN FALSE ELSE intervals[id]]
  /\ kIn' = [op |-> "stop", stopped |-> TRUE]
  /\ UNCHANGED <<utpVars, historyVars, muxVars, talkVars, routeVars,
                 gossipVars, proofVars, framingVars, nodeVars, cWaiting, tErr,
                 sIn, waitVars, accVars, refreshListeners>>

\* An active timer fires and calls bucketRefresh() of its network.
BucketRefreshFires ==
  /\ \E id \in DOMAIN intervals :
       /\ intervals[id]
       /\ kIn' = [op |-> "bucketRefresh", timer |-> id,
                  stopped |-> ~discv5Started /\ ~dbOpen]
  /\ UNCHANGED <<utpVars, historyVars, muxVars, talkVars, routeVars,
                 gossipVars, proofVars, framingVars, nodeVars, cWaiting, tErr,
                 sIn, waitVars, accVars, discv5Started, dbOpen,
                 refreshListeners, intervals>>

NextTimers == Start \/ Stop \/ BucketRefreshFires

SpecTimers == InitRoute /\ [][NextTimers]_vars

\* C39: when stop() has completed no bucketRefresh timer is active, and no
\* bucketRefresh fires while discv5 is stopped and the DB closed.
C39_StopClearsTimers ==
  /\ kIn.op = "stop" => \A id \in DOMAIN intervals : ~intervals[id]
  /\ kIn.op = "bucketRefresh" => ~kIn.stopped

\* -------------------------------------------------- the header accumulator
\* The highest block number of the headers offered.
MaxAccHeight == 3

\* The accumulator with the genesis block recorded, and the one that was
\* not initialised from genesis.
GenesisAccumulator ==
  [historicalEpochs |-> 0, currentEpoch |-> <<[blockHash |-> "0xa"]>>]
EmptyAccumulator == [historicalEpochs |-> 0, currentEpoch |-> <<>>]

\* HeaderAccumulator.currentHeight(): the number of the block recorded last.
currentHeight(acc) ==
  acc.historicalEpochs * EPOCH_SIZE + Len(acc.currentEpoch) - 1

\* HeaderAccumulator.updateAccumulator(header): a full epoch is moved to the
\* historical epochs, and the header's record is appended to the current one.
updateAccumulator(acc, header) ==
  IF Len(acc.currentEpoch) = EPOCH_SIZE
  THEN [historicalEpochs |-> acc.historicalEpochs + 1,
        currentEpoch |-> <<[blockHash |-> header.hash]>>]
  ELSE [acc EXCEPT !.currentEpoch = Append(@, [blockHash |-> header.hash])]

\* The test of the header with the test of the parent hash left out.
IsNextHeader_AnyParent(acc, header) ==
  [next |-> header.number = currentHeight(acc) + 1, threw |-> FALSE]

\* The test addContentToHistory makes of a header; reading the block hash of
\* the last record throws when the current epoch has no record.
IsNextHeader(acc, header) ==
  IF header.number # currentHeight(acc) + 1
  THEN [next |-> FALSE, threw |-> FALSE]
  ELSE IF acc.currentEpoch = <<>> THEN [next |-> FALSE, threw |-> TRUE]
  ELSE [next |-> header.parentHash =
                   acc.currentEpoch[Len(acc.currentEpoch)].blockHash,
        threw |-> FALSE]

\* The BlockHeader case of addContentToHistory: what it leaves of the
\* accumulator and the DB, and whether it returned from its catch block.
addHeaderToHistory(acc, d, value) ==
  LET test == IsNextHeader(acc, value)
  IN  IF value.kind # "header" \/ test.threw
      THEN [accumulator |-> acc, db |-> d, threw |-> TRUE]
      ELSE [accumulator |-> IF test.next THEN updateAccumulator(acc, value)
                            ELSE acc,
            db |-> MapPut(d, getContentKey("BlockHeader", value.hash), value),
            threw |-> FALSE]

\* The values addContentToHistory may get as a header: any number, parent
\* hash and hash, and bytes that are no RLP of a header.
AccHeaderValues ==
  {[kind |-> "header", number |-> n, parentHash |-> p, hash |-> h] :
     n \in 0..MaxAccHeight, p \in Hashes, h \in Hashes}
    \cup {[kind |-> "garbage", number |-> undefined, parentHash |-> "none",
           hash |-> "none"]}

InitAcc ==
  /\ InitSocketsIdle
  /\ InitHistory /\ InitMux /\ talk = <<>>
  /\ InitRouteIdle /\ InitGossipIdle /\ InitProofIdle /\ InitFramingIdle
  /\ InitNodeIdle
  /\ cWaiting = FALSE /\ tErr = NoError /\ sIn = NoOperation
  /\ InitWaitIdle /\ InitTimerIdle
  /\ headerAccumulator \in {GenesisAccumulator, EmptyAccumulator}
  /\ aIn = NoHeader

\* addContentToHistory(1, BlockHeader, blockHash, value).  No canonical
\* indices protocol is registered, so the block index stays as it is.
AddHeader ==
  /\ \E value \in AccHeaderValues :
       \E res \in {addHeaderToHistory(headerAccumulator, db, value)} :
         /\ headerAccumulator' = res.accumulator
         /\ db' = res.db
         /\ aIn' = value
         /\ hEmitted' = IF res.threw THEN <<>>
                        ELSE <<[event |-> "ContentAdded",
                                hashKey |-> value.hash,
                                contentType |-> "BlockHeader",
                                value |-> value]>>
  /\ UNCHANGED <<utpVars, blockIndex, hIn, hGossip, muxVars, talkVars,
                 routeVars, gossipVars, proofVars, framingVars, nodeVars,
                 cWaiting, tErr, sIn, waitVars, timerVars>>

NextAcc == AddHeader

SpecAcc == InitAcc /\ [][NextAcc]_vars

C40_Height(acc) ==
  acc.historicalEpochs * EPOCH_SIZE + Len(acc.currentEpoch) - 1

C40_IsNext(acc, header) ==
  /\ header.kind = "header"
  /\ header.number = C40_Height(acc) + 1
  /\ acc.currentEpoch # <<>>
  /\ header.parentHash = acc.currentEpoch[Len(acc.currentEpoch)].blockHash

====
